---- MODULE Spec2Model ----
(***************************************************************************)
(* The mock-draft engine of fantasy-predictor: the useDraft hook           *)
(* (src/src/app/draft/components/DraftSetup.tsx, lines 191-538), the turn  *)
(* scheduler and roster helpers (src/unnamed/part_002), the constants      *)
(* (src/src/app/draft/constants.ts), the CSV cell and scoring functions    *)
(* (src/unnamed/part_000, part_001) and the My Team builder                *)
(* (src/src/app/my-team/page.tsx).                                         *)
(*                                                                         *)
(* The hook is a React component: every handler and timer callback reads   *)
(* the values captured by the render that created it.  The model keeps the *)
(* hook's state (the variables named as in the source) apart from `view`,  *)
(* the values captured by the last committed render.  Updates made inside  *)
(* a click handler are committed before the next event; updates made in a  *)
(* timer callback or after an awaited fetch are committed by a later step  *)
(* (Render), and a click may arrive in between.                            *)
(***************************************************************************)
EXTENDS Integers, Sequences, FiniteSets, TLC

VARIABLES
    allPlayers,        \* useState allPlayers: the valuated pool
    availablePlayers,  \* useState availablePlayers
    loading,           \* useState loading
    draftPicks,        \* useState draftPicks: the ledger
    teamRosters,       \* useState teamRosters
    draftPhase,        \* useState draftPhase
    userPickPosition,  \* useState userPickPosition
    autopick,          \* useState autopick
    view,              \* the state values captured by the last committed render
    pending,           \* TRUE while state updates wait for their render
    timer,             \* the auto-draft effect's setTimeout and what its callback captured
    lastOp,            \* the handler or callback that ran last, and what it did
    draftScoring,      \* DraftPage: useState scoring
    draftLoads,        \* the calls of loadPlayers still in flight, oldest first
    myScoring,         \* My Team page: useState scoring
    myLoads,           \* My Team page: the calls of loadAll still in flight, oldest first
    myLoading,         \* My Team page: useState loading
    home,              \* rankings page (Home): its state and its loads in flight
    schedIn,           \* input of the turn scheduler (specification SpecSched)
    schedOut,          \* its result
    fnIn,              \* arguments of a function applied on its own
    fnOut,             \* its result
    myPlayers,         \* `allPlayers` of the My Team page (src/app/my-team/page.tsx)
    myRoster,          \* `roster` of that page
    myOp               \* the handler of that page that ran last, and its argument

vars == <<allPlayers, availablePlayers, loading, draftPicks, teamRosters,
          draftPhase, userPickPosition, autopick, view, pending, timer, lastOp,
          draftScoring, draftLoads,
          schedIn, schedOut, fnIn, fnOut, myPlayers, myRoster, myOp,
          myScoring, myLoads, myLoading, home>>

draftVars == <<allPlayers, availablePlayers, loading, draftPicks, teamRosters,
               draftPhase, userPickPosition, autopick, view, pending, timer, lastOp,
               draftScoring, draftLoads>>

(***************************************************************************)
(* Bounds of the model.  The program drafts 12 teams over 15 rounds from   *)
(* four CSV files; the model drafts NUM_TEAMS teams over ROUNDS rounds     *)
(* from PerPos players per position.                                       *)
(***************************************************************************)
NUM_TEAMS == 2

ROUNDS == 3

PerPos == 3

\* The largest pick index and team count the turn scheduler is applied to
\* in SpecSched.
MaxSchedPick == 40

MaxSchedTeams == 6

\* The largest roster getStarterPoints is applied to in SpecStarter.
MaxRoster == 5

\* The loads a page may have in flight at once.
MaxInFlight == 2

(***************************************************************************)
(* Program constants (constants.ts).                                       *)
(***************************************************************************)
ROSTER_SIZE == 15

PositionSet == {"QB", "RB", "WR", "TE"}

ROSTER_TARGETS ==
    [QB |-> [min |-> 1, max |-> 2],
     RB |-> [min |-> 4, max |-> 6],
     WR |-> [min |-> 4, max |-> 6],
     TE |-> [min |-> 1, max |-> 2]]

\* POSITION_VALUE in twentieths: RB 1.15, WR 1.1, TE 1.0, QB 0.95.
POSITION_VALUE == [RB |-> 23, WR |-> 22, TE |-> 20, QB |-> 19]

REPLACEMENT_RANK == [QB |-> 12, RB |-> 24, WR |-> 24, TE |-> 12]

(***************************************************************************)
(* Turn scheduler and roster helpers (utils).                              *)
(***************************************************************************)
SnakeNoReversal(pickNumber, numTeams) == pickNumber % numTeams

getSnakeDraftTeamIndex(pickNumber, numTeams) ==
    LET round == pickNumber \div numTeams
        pickInRound == pickNumber % numTeams
    IN  IF round % 2 = 0 THEN pickInRound ELSE numTeams - 1 - pickInRound

createEmptyRoster == [QB |-> <<>>, RB |-> <<>>, WR |-> <<>>, TE |-> <<>>]

EmptyRosters == [t \in 1..NUM_TEAMS |-> createEmptyRoster]

\* Array.prototype.filter
RECURSIVE SelectSeqBy(_, _)
SelectSeqBy(s, keep) ==
    IF s = <<>> THEN <<>>
    ELSE IF Head(s) \in keep THEN <<Head(s)>> \o SelectSeqBy(Tail(s), keep)
         ELSE SelectSeqBy(Tail(s), keep)

Range(s) == {s[i] : i \in 1..Len(s)}

(***************************************************************************)
(* Player valuation (loadPlayers).  The rows of a position are modelled    *)
(* after scoring and de-duplication: PerPos rows, in file order, with      *)
(* integer points.                                                         *)
(***************************************************************************)
\* Projected points of the n-th best row of the four files together: 100, 88,
\* 78, 69, ... (each 8/9 of the one before).
RECURSIVE PointsOfRank(_)
PointsOfRank(n) == IF n = 0 THEN 100 ELSE (PointsOfRank(n - 1) * 8) \div 9

FileIndex == [RB |-> 0, WR |-> 1, TE |-> 2, QB |-> 3]

\* Row k of a file; the files list their rows ascending by points, so the
\* sort has work to do.
RowPoints(pos, k) == PointsOfRank(4 * (PerPos - k) + FileIndex[pos])

\* all.sort / playersByPosition[pos].sort: a stable sort, descending by `key`
RECURSIVE InsertDesc(_, _, _)
InsertDesc(sorted, x, key) ==
    IF sorted = <<>> THEN <<x>>
    ELSE IF Head(sorted)[key] >= x[key]
         THEN <<Head(sorted)>> \o InsertDesc(Tail(sorted), x, key)
         ELSE <<x>> \o sorted

RECURSIVE SortDesc(_, _)
SortDesc(s, key) ==
    IF s = <<>> THEN <<>>
    ELSE InsertDesc(SortDesc(SubSeq(s, 1, Len(s) - 1), key), s[Len(s)], key)

RowsOf(pos) ==
    [k \in 1..PerPos |->
        [id |-> <<pos, k>>, position |-> pos, points |-> RowPoints(pos, k),
         vor |-> 0, tier |-> 0]]

\* replacementValue taken from the best player instead of the one at the
\* replacement rank
replacementValueOfBest(players, pos) ==
    IF players # <<>> THEN players[1].points ELSE 0

\* players[REPLACEMENT_RANK[pos] - 1]?.points ?? 0 (the source counts from 0)
replacementValue(players, pos) ==
    IF REPLACEMENT_RANK[pos] <= Len(players)
    THEN players[REPLACEMENT_RANK[pos]].points ELSE 0

\* a tier as wide as the whole position
tierOfOnePerPosition(idx) == 1

\* Math.floor(idx / 4) + 1 of the 0-based sort index
tier(idx) == (idx \div 4) + 1

\* the VOR loop over one position's players, sorted by points
Valuated(players, pos) ==
    [i \in 1..Len(players) |->
        [players[i] EXCEPT !.vor = players[i].points - replacementValue(players, pos),
                           !.tier = tier(i - 1)]]

ValuatedPosition(pos) == Valuated(SortDesc(RowsOf(pos), "points"), pos)

LoadedPlayers ==
    SortDesc(ValuatedPosition("QB") \o ValuatedPosition("RB")
             \o ValuatedPosition("WR") \o ValuatedPosition("TE"), "vor")

(***************************************************************************)
(* CSV cells and scoring (csv.ts toNumber, scoring.ts computeFantasyPoints).*)
(* A cell is absent (the file has no such column) or a text, a sequence of *)
(* characters.  Numbers are kept in thousandths.                           *)
(***************************************************************************)
DigitValue ==
    ("0" :> 0) @@ ("1" :> 1) @@ ("2" :> 2) @@ ("3" :> 3) @@ ("4" :> 4)
    @@ ("5" :> 5) @@ ("6" :> 6) @@ ("7" :> 7) @@ ("8" :> 8) @@ ("9" :> 9)

\* the longest prefix of s made of digits
RECURSIVE DigitPrefix(_)
DigitPrefix(s) ==
    IF s = <<>> \/ Head(s) \notin DOMAIN DigitValue THEN <<>>
    ELSE <<Head(s)>> \o DigitPrefix(Tail(s))

\* the number a sequence of digits denotes
RECURSIVE DigitsValue(_)
DigitsValue(ds) ==
    IF ds = <<>> THEN 0
    ELSE 10 * DigitsValue(SubSeq(ds, 1, Len(ds) - 1)) + DigitValue[ds[Len(ds)]]

\* parseFloat: an optional sign, digits, an optional point and digits, read
\* from the start of the text and as far as they go; NaN without any digit.
\* The value is in thousandths (digits after the third decimal are dropped).
parseFloat(text) ==
    LET negative == text # <<>> /\ Head(text) = "-"
        unsigned == IF text # <<>> /\ Head(text) \in {"-", "+"} THEN Tail(text)
                    ELSE text
        whole == DigitPrefix(unsigned)
        rest == SubSeq(unsigned, Len(whole) + 1, Len(unsigned))
        decimals == IF rest # <<>> /\ Head(rest) = "." THEN DigitPrefix(Tail(rest))
                    ELSE <<>>
        padded == SubSeq(decimals \o <<"0", "0", "0">>, 1, 3)
        magnitude == 1000 * DigitsValue(whole) + DigitsValue(padded)
    IN  IF whole = <<>> /\ decimals = <<>> THEN [finite |-> FALSE, value |-> 0]
        ELSE [finite |-> TRUE,
              value |-> IF negative THEN 0 - magnitude ELSE magnitude]

\* toNumber(value, fallback) of a cell
toNumber(cell, fallback) ==
    IF ~cell.present THEN fallback
    ELSE LET n == parseFloat(SelectSeq(cell.text, LAMBDA c : c # ","))
         IN  IF n.finite THEN n.value ELSE fallback

ScoringSet == {"STANDARD", "HALF_PPR", "PPR"}

\* Math.round(x / den) for an integer den > 0: halves go up
MathRound(x, den) == (2 * x + den) \div (2 * den)

\* computeFantasyPoints scoring the passing columns for quarterbacks only
computeFantasyPointsByPosition(row, position, scoring) ==
    LET passYds == toNumber(row["PassingYDS_pred"], 0)
        passTD == toNumber(row["PassingTD_pred"], 0)
        passInt == toNumber(row["PassingInt_pred"], 0)
        rushYds == toNumber(row["RushingYDS_pred"], 0)
        rushTD == toNumber(row["RushingTD_pred"], 0)
        rec == toNumber(row["ReceivingRec_pred"], 0)
        recYds == toNumber(row["ReceivingYDS_pred"], 0)
        recTD == toNumber(row["ReceivingTD_pred"], 0)
        passing == IF position = "QB"
                   THEN 40 * passYds + 4000 * passTD - 2000 * passInt ELSE 0
        pprFactor == IF scoring = "PPR" THEN 1000
                     ELSE IF scoring = "HALF_PPR" THEN 500 ELSE 0
        points == passing + (100 * rushYds + 6000 * rushTD)
                  + (100 * recYds + 6000 * recTD + rec * pprFactor)
    IN  MathRound(points, 10000)

\* computeFantasyPoints, in hundredths of a point.  The factors are in
\* thousandths (1/25 = 40, 1/10 = 100, 0.5 = 500), so `points` is in
\* millionths and points * 100 is points / 10000 hundredths.
computeFantasyPoints(row, position, scoring) ==
    LET passYds == toNumber(row["PassingYDS_pred"], 0)
        passTD == toNumber(row["PassingTD_pred"], 0)
        passInt == toNumber(row["PassingInt_pred"], 0)
        rushYds == toNumber(row["RushingYDS_pred"], 0)
        rushTD == toNumber(row["RushingTD_pred"], 0)
        rec == toNumber(row["ReceivingRec_pred"], 0)
        recYds == toNumber(row["ReceivingYDS_pred"], 0)
        recTD == toNumber(row["ReceivingTD_pred"], 0)
        scoringPassYd == 40
        scoringPassTD == 4000
        scoringINT == 0 - 2000
        scoringRushRecYd == 100
        scoringRushRecTD == 6000
        pprFactor == IF scoring = "PPR" THEN 1000
                     ELSE IF scoring = "HALF_PPR" THEN 500 ELSE 0
        points == (passYds * scoringPassYd + passTD * scoringPassTD
                   + passInt * scoringINT)
                  + (rushYds * scoringRushRecYd + rushTD * scoringRushRecTD)
                  + (recYds * scoringRushRecYd + recTD * scoringRushRecTD
                     + rec * pprFactor)
    IN  MathRound(points, 10000)

(***************************************************************************)
(* loadPlayers for one position: the rows of its file are scored,          *)
(* de-duplicated by name, sorted by points and valuated.  A row is a       *)
(* record of cells keyed by the header, its name cell a text.              *)
(***************************************************************************)
LowerCase ==
    ("A" :> "a") @@ ("B" :> "b") @@ ("C" :> "c") @@ ("D" :> "d") @@ ("E" :> "e")
    @@ ("F" :> "f") @@ ("G" :> "g") @@ ("H" :> "h") @@ ("I" :> "i") @@ ("J" :> "j")
    @@ ("K" :> "k") @@ ("L" :> "l") @@ ("M" :> "m") @@ ("N" :> "n") @@ ("O" :> "o")
    @@ ("P" :> "p") @@ ("Q" :> "q") @@ ("R" :> "r") @@ ("S" :> "s") @@ ("T" :> "t")
    @@ ("U" :> "u") @@ ("V" :> "v") @@ ("W" :> "w") @@ ("X" :> "x") @@ ("Y" :> "y")
    @@ ("Z" :> "z")

\* String.prototype.toLowerCase
toLowerCase(text) ==
    [i \in 1..Len(text) |->
        IF text[i] \in DOMAIN LowerCase THEN LowerCase[text[i]] ELSE text[i]]

WhiteSpace == {" ", "\t"}

RECURSIVE trimStart(_)
trimStart(text) ==
    IF text # <<>> /\ Head(text) \in WhiteSpace THEN trimStart(Tail(text))
    ELSE text

RECURSIVE trimEnd(_)
trimEnd(text) ==
    IF text # <<>> /\ text[Len(text)] \in WhiteSpace
    THEN trimEnd(SubSeq(text, 1, Len(text) - 1))
    ELSE text

\* String.prototype.trim
trim(text) == trimEnd(trimStart(text))

\* the de-duplication step overwriting the entry whatever its points
dedupeRowKeepingLast(byName, row, pos, scoring) ==
    LET rawName == row.name
        key == trim(toLowerCase(rawName))
        points == computeFantasyPoints(row, pos, scoring)
        entry == [key |-> key, row |-> row, points |-> points, name |-> rawName]
        at == {i \in 1..Len(byName) : byName[i].key = key}
    IN  IF at = {} THEN Append(byName, entry)
        ELSE LET i == CHOOSE i \in at : TRUE
             IN  [byName EXCEPT ![i] = entry]

\* One step of rows.forEach on byName.  byName is kept as the sequence of its
\* entries in the order their keys were first set, the order Object.values
\* lists them in; an entry that is replaced keeps its place.
dedupeRow(byName, row, pos, scoring) ==
    LET rawName == row.name
        key == trim(toLowerCase(rawName))
        points == computeFantasyPoints(row, pos, scoring)
        entry == [key |-> key, row |-> row, points |-> points, name |-> rawName]
        at == {i \in 1..Len(byName) : byName[i].key = key}
    IN  IF at = {} THEN Append(byName, entry)
        ELSE LET i == CHOOSE i \in at : TRUE
             IN  IF points > byName[i].points THEN [byName EXCEPT ![i] = entry]
                 ELSE byName

RECURSIVE dedupe(_, _, _)
dedupe(rows, pos, scoring) ==
    IF rows = <<>> THEN <<>>
    ELSE dedupeRow(dedupe(SubSeq(rows, 1, Len(rows) - 1), pos, scoring),
                   rows[Len(rows)], pos, scoring)

\* Object.values(byName).forEach: the players pushed to playersByPosition[pos]
PlayersOfEntries(byName, pos) ==
    [i \in 1..Len(byName) |->
        [id |-> <<pos, byName[i].name>>, name |-> byName[i].name,
         position |-> pos, points |-> byName[i].points, vor |-> 0, tier |-> 0]]

\* playersByPosition[pos] when loadPlayers has read, sorted and valuated it
PlayersByPosition(rows, pos, scoring) ==
    Valuated(SortDesc(PlayersOfEntries(dedupe(rows, pos, scoring), pos), "points"),
             pos)

\* isStarterSlot with one starter slot for every position
isStarterSlotOnePerPosition(position, index) == index = 0

\* isStarterSlot (utils); index counts from 0
isStarterSlot(position, index) ==
    IF position = "QB" \/ position = "TE" THEN index = 0
    ELSE index <= 1

(***************************************************************************)
(* Lineup value (utils, getStarterPoints).                                 *)
(***************************************************************************)
\* Array.prototype.slice(from) and slice(0, n), 0-based as in the source
SliceFrom(s, from) == SubSeq(s, from + 1, Len(s))

SliceTo(s, n) == SubSeq(s, 1, IF n < Len(s) THEN n ELSE Len(s))

\* reduce((sum, p) => sum + p.points, 0)
RECURSIVE SumPoints(_)
SumPoints(s) == IF s = <<>> THEN 0 ELSE Head(s).points + SumPoints(Tail(s))

\* getStarterPoints with a flex slot for running backs only
getStarterPointsFlexOfRB(roster) ==
    LET qb == SliceTo(roster.QB, 1)
        rb == SliceTo(roster.RB, 2)
        wr == SliceTo(roster.WR, 2)
        te == SliceTo(roster.TE, 1)
        flexCandidates == SortDesc(SliceFrom(roster.RB, 2), "points")
        flex == SliceTo(flexCandidates, 1)
    IN  SumPoints(qb \o rb \o wr \o te \o flex)

getStarterPoints(roster) ==
    LET qb == SliceTo(roster.QB, 1)
        rb == SliceTo(roster.RB, 2)
        wr == SliceTo(roster.WR, 2)
        te == SliceTo(roster.TE, 1)
        flexCandidates ==
            SortDesc(SliceFrom(roster.RB, 2) \o SliceFrom(roster.WR, 2)
                     \o SliceFrom(roster.TE, 1), "points")
        flex == SliceTo(flexCandidates, 1)
    IN  SumPoints(qb \o rb \o wr \o te \o flex)

(***************************************************************************)
(* The opponent heuristic (getCPUPick).  Math.random() is any real in      *)
(* [0, 1): the operator yields every player some outcome of the random     *)
(* factors returns.  Scores are kept as integers: the common denominator   *)
(* 20 * 10 * 10 * 4 of the weights and boosts is dropped, and the random   *)
(* factor 0.95 + random * 0.1 ranges over [95, 105) hundredths.            *)
(***************************************************************************)
countRosterPositions(roster) ==
    [pos \in PositionSet |-> Len(roster[pos])]

NeededPositions(counts) ==
    {pos \in PositionSet : counts[pos] < ROSTER_TARGETS[pos].min}

\* score before the random factor
BaseScore(p, counts, round) ==
    LET needed == NeededPositions(counts)
    IN  p.vor * POSITION_VALUE[p.position]
        * (IF p.position \in needed THEN 13 ELSE 10)
        * (IF p.tier <= 2 THEN 11 ELSE 10)
        * (IF round >= 8 /\ p.position \in {"QB", "TE"} /\ counts[p.position] = 0
           THEN 5 ELSE 4)

\* least upper and greatest lower bound of score * factor, factor in [95, 105)
ScoreHi(s) == IF s > 0 THEN 105 * s ELSE 95 * s

ScoreLo(s) == IF s > 0 THEN 95 * s ELSE 105 * s

\* The candidates without the filter on positions at their maximum.
CPUCandidatesWithoutMaxFilter(available, teamRoster) ==
    LET counts == countRosterPositions(teamRoster)
        totalPicks == counts.QB + counts.RB + counts.WR + counts.TE
        picksRemaining == ROSTER_SIZE - totalPicks
        needed == NeededPositions(counts)
        urgent == SelectSeqBy(available,
                      {p \in Range(available) : p.position \in needed})
    IN  IF needed # {} /\ picksRemaining <= Cardinality(needed) + 2 /\ urgent # <<>>
        THEN urgent ELSE available

\* The candidates without the urgency override.
CPUCandidatesWithoutUrgency(available, teamRoster) ==
    LET counts == countRosterPositions(teamRoster)
        wanted == SelectSeqBy(available,
                      {p \in Range(available) :
                          counts[p.position] < ROSTER_TARGETS[p.position].max})
    IN  IF wanted = <<>> THEN available ELSE wanted

\* The candidates with a max filter that lets a position at its maximum in.
CPUCandidatesUpToMax(available, teamRoster) ==
    LET counts == countRosterPositions(teamRoster)
        totalPicks == counts.QB + counts.RB + counts.WR + counts.TE
        picksRemaining == ROSTER_SIZE - totalPicks
        needed == NeededPositions(counts)
        wanted == SelectSeqBy(available,
                      {p \in Range(available) :
                          counts[p.position] <= ROSTER_TARGETS[p.position].max})
        candidates == IF wanted = <<>> THEN available ELSE wanted
        urgent == SelectSeqBy(candidates,
                      {p \in Range(candidates) : p.position \in needed})
    IN  IF needed # {} /\ picksRemaining <= Cardinality(needed) + 2 /\ urgent # <<>>
        THEN urgent ELSE candidates

\* Candidates after the max filter, the fallback and the urgency override.
CPUCandidates(available, teamRoster) ==
    LET counts == countRosterPositions(teamRoster)
        totalPicks == counts.QB + counts.RB + counts.WR + counts.TE
        picksRemaining == ROSTER_SIZE - totalPicks
        needed == NeededPositions(counts)
        wanted == SelectSeqBy(available,
                      {p \in Range(available) :
                          counts[p.position] < ROSTER_TARGETS[p.position].max})
        candidates == IF wanted = <<>> THEN available ELSE wanted
        urgent == SelectSeqBy(candidates,
                      {p \in Range(candidates) : p.position \in needed})
    IN  IF needed # {} /\ picksRemaining <= Cardinality(needed) + 2 /\ urgent # <<>>
        THEN urgent ELSE candidates

\* The players of the scored candidates that some outcome of the random
\* factors sorts first.
FirstScored(cands, counts, round) ==
    LET s == [i \in 1..Len(cands) |-> BaseScore(cands[i], counts, round)]
        first(i) ==
            \A j \in 1..Len(cands) :
                j # i => \/ ScoreHi(s[i]) > ScoreLo(s[j])
                         \/ (s[i] = 0 /\ s[j] = 0 /\ i < j)
    IN  {cands[i] : i \in {k \in 1..Len(cands) : first(k)}}

\* getCPUPick returning null when every available player is of a position
\* at its maximum.
getCPUPickWithoutFallback(available, teamRoster, round) ==
    LET counts == countRosterPositions(teamRoster)
    IN  IF \A p \in Range(available) :
               counts[p.position] >= ROSTER_TARGETS[p.position].max
        THEN {}
        ELSE FirstScored(CPUCandidates(available, teamRoster), counts, round)

\* The players getCPUPick can return; the empty set stands for null.
getCPUPick(available, teamRoster, round) ==
    IF available = <<>> THEN {}
    ELSE LET counts == countRosterPositions(teamRoster)
             cands == CPUCandidates(available, teamRoster)
         IN  IF cands = <<>> THEN {available[1]}
             ELSE FirstScored(cands, counts, round)

\* The factors 0.95 + Math.random() * 0.1, in thousandths: the least, the
\* middle and one just below the upper end of [0.95, 1.05), which no outcome
\* reaches.
RandomLevels == {950, 1000, 1049}

\* the scored candidates with a random part twice as wide
scoredWithDoubleSpread(cands, counts, round, random) ==
    [i \in 1..Len(cands) |->
        [player |-> cands[i],
         score |-> BaseScore(cands[i], counts, round) * (2 * random[i] - 1000)]]

\* candidates.map: each candidate with its score, random[i] being the factor
\* the i-th call of Math.random() gives
scored(cands, counts, round, random) ==
    [i \in 1..Len(cands) |->
        [player |-> cands[i],
         score |-> BaseScore(cands[i], counts, round) * random[i]]]

\* the scored candidates once sorted, for given outcomes of Math.random()
sortedScored(available, teamRoster, round, random) ==
    SortDesc(scored(CPUCandidates(available, teamRoster),
                    countRosterPositions(teamRoster), round, random),
             "score")

(***************************************************************************)
(* The hook's state, derived values and rendering.                         *)
(***************************************************************************)
\* what a render captures (useDraft, the useState values)
Store ==
    [allPlayers |-> allPlayers, availablePlayers |-> availablePlayers,
     loading |-> loading, draftPicks |-> draftPicks, teamRosters |-> teamRosters,
     draftPhase |-> draftPhase, userPickPosition |-> userPickPosition,
     autopick |-> autopick]

\* Derived values of a render v
currentPick(v) == Len(v.draftPicks)

currentRound(v) == (currentPick(v) \div NUM_TEAMS) + 1

currentTeamIndex(v) == getSnakeDraftTeamIndex(currentPick(v), NUM_TEAMS)

userTeamIndex(v) == v.userPickPosition - 1

isUserTurn(v) == currentTeamIndex(v) = userTeamIndex(v)

\* No timer is pending: none was set, the last one fired ("idle"), or the
\* effect's cleanup cleared one before it fired ("cleared").
NoTimer(status) == [armed |-> FALSE, status |-> status]

\* The effect without its test of whose turn it is.
AutoDraftEffectAnyTurn(v, old) ==
    IF v.draftPhase # "drafting" \/ v.availablePlayers = <<>>
    THEN NoTimer(IF old.armed THEN "cleared" ELSE "idle")
    ELSE [armed |-> TRUE, status |-> "armed",
          availablePlayers |-> v.availablePlayers,
          teamRoster |-> v.teamRosters[currentTeamIndex(v) + 1],
          currentRound |-> currentRound(v),
          pickNumber |-> currentPick(v)]

\* The auto-draft effect of a committed render v, `old` the timer of the
\* render before: the cleanup clears `old`, the effect may set a new timer.
AutoDraftEffect(v, old) ==
    IF \/ v.draftPhase # "drafting"
       \/ (isUserTurn(v) /\ ~v.autopick)
       \/ v.availablePlayers = <<>>
    THEN NoTimer(IF old.armed THEN "cleared" ELSE "idle")
    ELSE [armed |-> TRUE, status |-> "armed",
          availablePlayers |-> v.availablePlayers,
          teamRoster |-> v.teamRosters[currentTeamIndex(v) + 1],
          currentRound |-> currentRound(v),
          pickNumber |-> currentPick(v)]

\* A commit of every update made so far, and the effects of that render.
Commit ==
    /\ view' = Store'
    /\ pending' = FALSE
    /\ timer' = AutoDraftEffect(Store', timer)

\* The record makePick builds for `player` at ledger length pickNumber.
DraftPickOf(pickNumber, player) ==
    [round |-> (pickNumber \div NUM_TEAMS) + 1,
     pick |-> (pickNumber % NUM_TEAMS) + 1,
     overall |-> pickNumber + 1,
     teamIndex |-> getSnakeDraftTeamIndex(pickNumber, NUM_TEAMS),
     player |-> player]

\* makePick filing the player under the pick's place in the round instead of
\* the scheduled team.
makePickByPlaceInRound(pickNumber, player) ==
    LET pick == DraftPickOf(pickNumber, player)
    IN  /\ draftPicks' = Append(draftPicks, pick)
        /\ availablePlayers' =
               SelectSeqBy(availablePlayers,
                           {p \in Range(availablePlayers) : p.id # player.id})
        /\ teamRosters' =
               [teamRosters EXCEPT ![pick.pick][player.position] =
                                       Append(@, player)]
        /\ draftPhase' = IF pickNumber + 1 >= ROUNDS * NUM_TEAMS
                         THEN "complete" ELSE draftPhase

\* makePick as created by a render in which draftPicks.length = pickNumber:
\* functional updates of the ledger, the pool and the rosters.
makePick(pickNumber, player) ==
    LET pick == DraftPickOf(pickNumber, player)
    IN  /\ draftPicks' = Append(draftPicks, pick)
        /\ availablePlayers' =
               SelectSeqBy(availablePlayers,
                           {p \in Range(availablePlayers) : p.id # player.id})
        /\ teamRosters' =
               [teamRosters EXCEPT ![pick.teamIndex + 1][player.position] =
                                       Append(@, player)]
        /\ draftPhase' = IF pickNumber + 1 >= ROUNDS * NUM_TEAMS
                         THEN "complete" ELSE draftPhase

\* The rows of the player board the user clicks on: the first and the last
\* row under the ALL tab and the first row under the QB tab (usePlayerFilter,
\* PlayerBoard).
Shown(v) ==
    LET tab(keep) == SelectSeqBy(v.availablePlayers, keep)
        firstRow(s) == IF s = <<>> THEN {} ELSE {Head(s)}
        lastRow(s) == IF s = <<>> THEN {} ELSE {s[Len(s)]}
    IN  firstRow(v.availablePlayers)
        \cup lastRow(v.availablePlayers)
        \cup firstRow(tab({p \in Range(v.availablePlayers) : p.position = "QB"}))

\* getTeamTotalPoints (utils)
getTeamTotalPoints(roster) ==
    SumPoints(roster.QB \o roster.RB \o roster.WR \o roster.TE)

\* teamRankings in team order, without the sort
teamRankingsInTeamOrder(v) ==
    [idx \in 1..Len(v.teamRosters) |->
        [teamIndex |-> idx - 1,
         roster |-> v.teamRosters[idx],
         totalPoints |-> getTeamTotalPoints(v.teamRosters[idx]),
         starterPoints |-> getStarterPoints(v.teamRosters[idx]),
         isUser |-> idx - 1 = userTeamIndex(v)]]

\* teamRankings of a render v (the team's display name is left out)
teamRankings(v) ==
    SortDesc([idx \in 1..Len(v.teamRosters) |->
                 [teamIndex |-> idx - 1,
                  roster |-> v.teamRosters[idx],
                  totalPoints |-> getTeamTotalPoints(v.teamRosters[idx]),
                  starterPoints |-> getStarterPoints(v.teamRosters[idx]),
                  isUser |-> idx - 1 = userTeamIndex(v)]],
             "starterPoints")

(***************************************************************************)
(* The My Team builder (src/app/my-team/page.tsx).  Its handlers run on    *)
(* clicks, and React commits the roster a click sets before the next       *)
(* click: each handler reads the current roster.  A player is its id and   *)
(* its position (its name and points play no part in the handlers), and    *)
(* the list of all players is kept as their set.                           *)
(***************************************************************************)
POSITION_LIMITS == [QB |-> 2, RB |-> 5, WR |-> 5, TE |-> 4]

STARTER_LIMITS == [QB |-> 1, RB |-> 2, WR |-> 2, TE |-> 1]

rosterCounts(r) ==
    [pos \in PositionSet |-> Cardinality({i \in 1..Len(r) : r[i].position = pos})]

starterCounts(r) ==
    [pos \in PositionSet |->
        Cardinality({i \in 1..Len(r) : r[i].slot = "starter" /\ r[i].position = pos})]

\* canAddPlayer without the test of the position's limit
canAddPlayerWithoutLimit(r, player) ==
    LET isOnRoster == \E i \in 1..Len(r) : r[i].id = player.id
    IN  ~isOnRoster

canAddPlayer(r, player) ==
    LET isOnRoster == \E i \in 1..Len(r) : r[i].id = player.id
    IN  IF isOnRoster THEN FALSE
        ELSE rosterCounts(r)[player.position] < POSITION_LIMITS[player.position]

NoTeamOp == [op |-> "none"]

\* the page is mounted: no player is listed yet and the roster is empty
\* and the load effect has called loadAll for the scoring it starts with
TeamInit ==
    /\ myPlayers = {}
    /\ myRoster = <<>>
    /\ myOp = NoTeamOp
    /\ myScoring = "PPR"
    /\ myLoads = <<"PPR">>
    /\ myLoading = TRUE

\* the rankings page is mounted: no row is listed and the load effect has
\* called load for the position and the scoring it starts with
HomeInit ==
    home = [position |-> "QB", scoring |-> "PPR", rows |-> <<>>,
            loading |-> TRUE, error |-> FALSE,
            loads |-> <<[position |-> "QB", scoring |-> "PPR"]>>]

\* the loop of getUpcomingPicks from its i-th round on
RECURSIVE upcomingFrom(_, _, _)
upcomingFrom(v, i, count) ==
    IF i >= count THEN <<>>
    ELSE LET pickNum == currentPick(v) + i
             teamIdx == getSnakeDraftTeamIndex(pickNum, NUM_TEAMS)
         IN  IF pickNum >= ROUNDS * NUM_TEAMS THEN <<>>
             ELSE <<[pick |-> pickNum + 1, team |-> teamIdx + 1,
                     isUser |-> teamIdx = userTeamIndex(v)]>>
                  \o upcomingFrom(v, i + 1, count)

\* getUpcomingPicks(count) of a render v
getUpcomingPicks(v, count) == upcomingFrom(v, 0, count)

(***************************************************************************)
(* Initial state: the hook is mounted, the roster-initialising effect has  *)
(* run and the first loadPlayers is in flight.                             *)
(***************************************************************************)
DraftInit ==
    /\ allPlayers = <<>>
    /\ availablePlayers = <<>>
    /\ loading = TRUE
    /\ draftPicks = <<>>
    /\ teamRosters = EmptyRosters
    /\ draftPhase = "setup"
    /\ userPickPosition = 1
    /\ autopick = FALSE
    /\ view = [allPlayers |-> <<>>, availablePlayers |-> <<>>, loading |-> TRUE,
               draftPicks |-> <<>>, teamRosters |-> EmptyRosters,
               draftPhase |-> "setup", userPickPosition |-> 1, autopick |-> FALSE]
    /\ pending = FALSE
    /\ timer = NoTimer("idle")
    /\ lastOp = "mount"
    /\ draftScoring = "PPR"
    /\ draftLoads = <<"PPR">>

NotScheduled == [done |-> FALSE, team |-> 0]

\* no function is being applied on its own
NotCalled == [done |-> FALSE]

Init ==
    /\ DraftInit
    /\ TeamInit
    /\ HomeInit
    /\ schedIn = [pickNumber |-> 0, numTeams |-> 1]
    /\ schedOut = NotScheduled
    /\ fnIn = NotCalled
    /\ fnOut = NotCalled

(***************************************************************************)
(* Operations.                                                             *)
(***************************************************************************)
\* loadPlayers finishes (after its awaited fetches): setAllPlayers,
\* setAvailablePlayers, setLoading(false); rendered by a later Render.
\* A file whose fetch is not ok is skipped: `files` are the positions whose
\* file was read (valuation is per position and the final sort is stable, so
\* the pool is LoadedPlayers without the players of the skipped files).
LoadPlayersDone(files) ==
    /\ draftLoads # <<>>
    /\ draftLoads' = Tail(draftLoads)
    /\ allPlayers' = SelectSeqBy(LoadedPlayers,
                                 {p \in Range(LoadedPlayers) : p.position \in files})
    /\ availablePlayers' = allPlayers'
    /\ loading' = FALSE
    /\ pending' = TRUE
    /\ lastOp' = "load"
    /\ UNCHANGED <<draftPicks, teamRosters, draftPhase, userPickPosition, autopick,
                   view, timer, draftScoring, myPlayers, myRoster, myOp, myScoring,
                   myLoads, myLoading, home, schedIn, schedOut, fnIn, fnOut>>

\* React renders the updates a timer callback or the loader queued.
Render ==
    /\ pending
    /\ lastOp' = "render"
    /\ UNCHANGED <<allPlayers, availablePlayers, loading, draftPicks, teamRosters,
                   draftPhase, userPickPosition, autopick, draftScoring, draftLoads,
                   myPlayers, myRoster, myOp, myScoring, myLoads, myLoading, home,
                   schedIn, schedOut, fnIn, fnOut>>
    /\ Commit

\* A click on a draft-position button of the setup card (shown once loaded).
SetUserPickPosition(pos) ==
    /\ view.draftPhase = "setup"
    /\ ~view.loading
    /\ userPickPosition' = pos
    /\ lastOp' = "position"
    /\ UNCHANGED <<allPlayers, availablePlayers, loading, draftPicks, teamRosters,
                   draftPhase, autopick, draftScoring, draftLoads, myPlayers, myRoster,
                   myOp, myScoring, myLoads, myLoading, home, schedIn, schedOut, fnIn,
                   fnOut>>
    /\ Commit

\* startDraft: the Start button of the setup card.
startDraft ==
    /\ view.draftPhase = "setup"
    /\ ~view.loading
    /\ draftPicks' = <<>>
    /\ availablePlayers' = view.allPlayers
    /\ teamRosters' = EmptyRosters
    /\ draftPhase' = "drafting"
    /\ lastOp' = "start"
    /\ UNCHANGED <<allPlayers, loading, userPickPosition, autopick, draftScoring,
                   draftLoads, myPlayers, myRoster, myOp, myScoring, myLoads, myLoading,
                   home, schedIn, schedOut, fnIn, fnOut>>
    /\ Commit

\* What resetDraft sets, with the allPlayers of the render v it was created in.
resetDraftSets(v) ==
    [draftPhase |-> "setup", draftPicks |-> <<>>,
     availablePlayers |-> v.allPlayers, teamRosters |-> EmptyRosters,
     autopick |-> FALSE]

\* resetDraft: Exit Draft (drafting screen) or Draft Again (results screen).
resetDraft ==
    /\ view.draftPhase \in {"drafting", "complete"}
    /\ draftPhase' = resetDraftSets(view).draftPhase
    /\ draftPicks' = resetDraftSets(view).draftPicks
    /\ availablePlayers' = resetDraftSets(view).availablePlayers
    /\ teamRosters' = resetDraftSets(view).teamRosters
    /\ autopick' = resetDraftSets(view).autopick
    /\ lastOp' = "reset"
    /\ UNCHANGED <<allPlayers, loading, userPickPosition, draftScoring, draftLoads,
                   myPlayers, myRoster, myOp, myScoring, myLoads, myLoading, home,
                   schedIn, schedOut,
                   fnIn, fnOut>>
    /\ Commit

\* The Autopick checkbox of the draft header: onChange with the negation of
\* the rendered (controlled) value.
SetAutopick ==
    /\ view.draftPhase = "drafting"
    /\ autopick' = ~view.autopick
    /\ lastOp' = "autopick"
    /\ UNCHANGED <<allPlayers, availablePlayers, loading, draftPicks, teamRosters,
                   draftPhase, userPickPosition, draftScoring, draftLoads, myPlayers,
                   myRoster, myOp, myScoring, myLoads, myLoading, home, schedIn,
                   schedOut, fnIn, fnOut>>
    /\ Commit

\* handleUserPick(player): a click on a row of the player board.
handleUserPick(player) ==
    /\ view.draftPhase = "drafting"
    /\ player \in Shown(view)
    /\ IF ~isUserTurn(view) \/ view.draftPhase # "drafting"
       THEN /\ lastOp' = "clickIgnored"
            /\ UNCHANGED <<allPlayers, availablePlayers, loading, draftPicks,
                           teamRosters, draftPhase, userPickPosition, autopick,
                           view, pending, timer, draftScoring, draftLoads, myPlayers,
                           myRoster, myOp, myScoring, myLoads, myLoading, home, schedIn,
                           schedOut, fnIn, fnOut>>
       ELSE /\ makePick(currentPick(view), player)
            /\ lastOp' = "userPick"
            /\ UNCHANGED <<allPlayers, loading, userPickPosition, autopick,
                           draftScoring, draftLoads, myPlayers, myRoster, myOp,
                           myScoring, myLoads, myLoading, home, schedIn, schedOut, fnIn,
                           fnOut>>
            /\ Commit

\* The auto-draft timer fires: getCPUPick on what the effect captured, then
\* makePick; rendered by a later Render.
TimerFires ==
    /\ timer.armed
    /\ \E player \in getCPUPick(timer.availablePlayers, timer.teamRoster,
                                timer.currentRound) :
           makePick(timer.pickNumber, player)
    /\ timer' = NoTimer("idle")
    /\ pending' = TRUE
    /\ lastOp' = "cpuPick"
    /\ UNCHANGED <<allPlayers, loading, userPickPosition, autopick, view,
                   draftScoring, draftLoads, myPlayers, myRoster, myOp, myScoring,
                   myLoads, myLoading, home, schedIn, schedOut, fnIn, fnOut>>

Next ==
    \/ \E files \in {PositionSet, {}} : LoadPlayersDone(files)
    \/ Render
    \/ \E pos \in 1..NUM_TEAMS : SetUserPickPosition(pos)
    \/ startDraft
    \/ resetDraft
    \/ SetAutopick
    \/ \E player \in Range(view.availablePlayers) : handleUserPick(player)
    \/ TimerFires

Spec == Init /\ [][Next]_vars

(***************************************************************************)
(* The draft with the scoring selector of the setup card: a change of the  *)
(* scoring runs the load effect again.  The effect's setLoading(true) is   *)
(* rendered later than the click, like the updates of a timer callback.    *)
(* The valuated pool is kept by ranks, which every scoring yields alike.   *)
(***************************************************************************)
\* a scoring button of the setup card is clicked: setScoring, and the load
\* effect calls loadPlayers, which sets loading before its first fetch
SetScoring(s) ==
    /\ view.draftPhase = "setup"
    /\ ~view.loading
    /\ s # draftScoring
    /\ Len(draftLoads) < MaxInFlight
    /\ draftScoring' = s
    /\ draftLoads' = Append(draftLoads, s)
    /\ loading' = TRUE
    /\ view' = [Store EXCEPT !.loading = view.loading]
    /\ pending' = TRUE
    /\ lastOp' = "scoring"
    /\ UNCHANGED <<allPlayers, availablePlayers, draftPicks, teamRosters, draftPhase,
                   userPickPosition, autopick, timer, myPlayers, myRoster,
                   myOp, myScoring, myLoads, myLoading, home, schedIn, schedOut,
                   fnIn, fnOut>>

ReloadNext ==
    \/ Next
    \/ \E s \in ScoringSet : SetScoring(s)

SpecReload == Init /\ [][ReloadNext]_vars

(***************************************************************************)
(* The draft of a user who stays until the results: no Exit Draft while    *)
(* drafting, a pick on each of their turns; timers fire and React renders. *)
(* The pool holds all four files (more players than picks) or the RB and   *)
(* WR files only.                                                          *)
(***************************************************************************)
UserPicks ==
    \E player \in Range(view.availablePlayers) :
        handleUserPick(player) /\ lastOp' = "userPick"

LiveNext ==
    \/ \E files \in {PositionSet, {"RB", "WR"}} : LoadPlayersDone(files)
    \/ Render
    \/ \E pos \in 1..NUM_TEAMS : SetUserPickPosition(pos)
    \/ startDraft
    \/ (view.draftPhase = "complete" /\ resetDraft)
    \/ SetAutopick
    \/ \E player \in Range(view.availablePlayers) : handleUserPick(player)
    \/ TimerFires

SpecLive ==
    /\ Init
    /\ [][LiveNext]_vars
    /\ WF_vars(Render)
    /\ WF_vars(TimerFires)
    /\ WF_vars(UserPicks)

(***************************************************************************)
(* The turn scheduler on its own: any pick index and any team count.       *)
(***************************************************************************)
SchedInit ==
    /\ DraftInit
    /\ TeamInit
    /\ HomeInit
    /\ schedIn \in [pickNumber : 0..MaxSchedPick, numTeams : 1..MaxSchedTeams]
    /\ schedOut = NotScheduled
    /\ fnIn = NotCalled
    /\ fnOut = NotCalled

Schedule ==
    /\ schedOut = NotScheduled
    /\ schedOut' = [done |-> TRUE,
                    team |-> getSnakeDraftTeamIndex(schedIn.pickNumber,
                                                    schedIn.numTeams)]
    /\ UNCHANGED <<draftVars, myPlayers, myRoster, myOp, myScoring, myLoads, myLoading,
                   home, schedIn, fnIn, fnOut>>

SchedNext == Schedule

SpecSched == SchedInit /\ [][SchedNext]_vars

(***************************************************************************)
(* getStarterPoints on its own: any roster of up to MaxRoster players      *)
(* whose buckets are in descending points order, built player by player.   *)
(***************************************************************************)
PointLevels == {5, 10, 15, 20}

RosterSize(roster) ==
    Len(roster.QB) + Len(roster.RB) + Len(roster.WR) + Len(roster.TE)

StarterInit ==
    /\ DraftInit
    /\ TeamInit
    /\ HomeInit
    /\ schedIn = [pickNumber |-> 0, numTeams |-> 1]
    /\ schedOut = NotScheduled
    /\ fnIn = [roster |-> createEmptyRoster]
    /\ fnOut = NotCalled

\* one more player at the end of a bucket, not above the one before
AddToRoster(pos, points) ==
    /\ fnOut = NotCalled
    /\ RosterSize(fnIn.roster) < MaxRoster
    /\ LET bucket == fnIn.roster[pos]
       IN  /\ bucket # <<>> => bucket[Len(bucket)].points >= points
           /\ fnIn' = [roster |->
                          [fnIn.roster EXCEPT
                              ![pos] = Append(bucket, [position |-> pos,
                                                       points |-> points])]]
    /\ UNCHANGED <<draftVars, myPlayers, myRoster, myOp, myScoring, myLoads, myLoading,
                   home, schedIn, schedOut, fnOut>>

StarterPoints ==
    /\ fnOut = NotCalled
    /\ fnOut' = [done |-> TRUE, result |-> getStarterPoints(fnIn.roster)]
    /\ UNCHANGED <<draftVars, myPlayers, myRoster, myOp, myScoring, myLoads, myLoading,
                   home, schedIn, schedOut, fnIn>>

StarterNext ==
    \/ \E pos \in PositionSet : \E points \in PointLevels : AddToRoster(pos, points)
    \/ StarterPoints

SpecStarter == StarterInit /\ [][StarterNext]_vars

(***************************************************************************)
(* getCPUPick on its own: the pool after the best players of each position *)
(* have gone, a roster with none, the minimum or the maximum of each       *)
(* position, an early and a late round.                                    *)
(***************************************************************************)
\* LoadedPlayers without the gone[pos] best players of each position pos
PoolWithout(gone) ==
    SelectSeqBy(LoadedPlayers,
                {p \in Range(LoadedPlayers) : p.id[2] <= PerPos - gone[p.position]})

\* a roster of counts[pos] players per position
RosterOf(counts) ==
    [pos \in PositionSet |->
        [i \in 1..counts[pos] |->
            [id |-> <<pos, 0>>, position |-> pos, points |-> 0, vor |-> 0,
             tier |-> 0]]]

CPUInit ==
    /\ DraftInit
    /\ TeamInit
    /\ HomeInit
    /\ schedIn = [pickNumber |-> 0, numTeams |-> 1]
    /\ schedOut = NotScheduled
    /\ \E gone \in [PositionSet -> 0..PerPos] :
       \E counts \in {c \in [PositionSet -> 0..ROSTER_SIZE] :
                          \A pos \in PositionSet :
                              c[pos] \in {0, ROSTER_TARGETS[pos].min,
                                          ROSTER_TARGETS[pos].max}} :
       \E round \in {1, 8} :
           fnIn = [available |-> PoolWithout(gone),
                   teamRoster |-> RosterOf(counts), round |-> round]
    /\ fnOut = NotCalled

\* one call; `picked` holds the player returned, and nothing for null
CPUPick ==
    /\ fnOut = NotCalled
    /\ LET result == getCPUPick(fnIn.available, fnIn.teamRoster, fnIn.round)
       IN  IF result = {} THEN fnOut' = [done |-> TRUE, picked |-> {}]
           ELSE \E player \in result : fnOut' = [done |-> TRUE, picked |-> {player}]
    /\ UNCHANGED <<draftVars, myPlayers, myRoster, myOp, myScoring, myLoads, myLoading,
                   home, schedIn, schedOut, fnIn>>

CPUNext == CPUPick

SpecCPU == CPUInit /\ [][CPUNext]_vars

(***************************************************************************)
(* computeFantasyPoints on its own: a row whose eight stat cells are       *)
(* absent, not a number, or a number, scored for every position and        *)
(* scoring.                                                                *)
(***************************************************************************)
StatColumns ==
    {"PassingYDS_pred", "PassingTD_pred", "PassingInt_pred", "RushingYDS_pred",
     "RushingTD_pred", "ReceivingRec_pred", "ReceivingYDS_pred",
     "ReceivingTD_pred"}

Absent == [present |-> FALSE, text |-> <<>>]

Cell(text) == [present |-> TRUE, text |-> text]

\* the cells each column is given
CellsOf ==
    [PassingYDS_pred |-> {Absent, Cell(<<"3", "0", "0">>), Cell(<<"1", ",", "2", "0", "0", ".", "3">>)},
     PassingTD_pred |-> {Cell(<<>>), Cell(<<"2">>), Cell(<<"x">>)},
     PassingInt_pred |-> {Absent, Cell(<<"1">>), Cell(<<"1", ".", "5", "x">>)},
     RushingYDS_pred |-> {Cell(<<>>), Cell(<<"1", "0">>), Cell(<<"-", "4", ".", "7">>)},
     RushingTD_pred |-> {Absent, Cell(<<"n", "/", "a">>), Cell(<<".", "5">>)},
     ReceivingRec_pred |-> {Absent, Cell(<<"3", ".", "3">>), Cell(<<"-">>)},
     ReceivingYDS_pred |-> {Absent, Cell(<<"4", "5", ".", "1">>), Cell(<<",">>)},
     ReceivingTD_pred |-> {Absent, Cell(<<"1">>), Cell(<<"N", "a", "N">>)}]

ScoreInit ==
    /\ DraftInit
    /\ TeamInit
    /\ HomeInit
    /\ schedIn = [pickNumber |-> 0, numTeams |-> 1]
    /\ schedOut = NotScheduled
    /\ \E row \in [PassingYDS_pred : CellsOf.PassingYDS_pred,
                    PassingTD_pred : CellsOf.PassingTD_pred,
                    PassingInt_pred : CellsOf.PassingInt_pred,
                    RushingYDS_pred : CellsOf.RushingYDS_pred,
                    RushingTD_pred : CellsOf.RushingTD_pred,
                    ReceivingRec_pred : CellsOf.ReceivingRec_pred,
                    ReceivingYDS_pred : CellsOf.ReceivingYDS_pred,
                    ReceivingTD_pred : CellsOf.ReceivingTD_pred] :
       \E scoring \in ScoringSet :
           fnIn = [row |-> row, scoring |-> scoring]
    /\ fnOut = NotCalled

ComputePoints(position) ==
    /\ fnOut = NotCalled
    /\ fnOut' = [done |-> TRUE, position |-> position,
                 points |-> computeFantasyPoints(fnIn.row, position, fnIn.scoring)]
    /\ UNCHANGED <<draftVars, myPlayers, myRoster, myOp, myScoring, myLoads, myLoading,
                   home, schedIn, schedOut, fnIn>>

ScoreNext == \E position \in PositionSet : ComputePoints(position)

SpecScore == ScoreInit /\ [][ScoreNext]_vars

(***************************************************************************)
(* One position's file on its own: up to MaxFile rows of distinct names,   *)
(* listed ascending by points, with at most one more row before and one    *)
(* after them whose name may repeat another row's in another case or with  *)
(* blanks around it.                                                       *)
(***************************************************************************)
MaxFile == 25

DigitChar == <<"0", "1", "2", "3", "4", "5", "6", "7", "8", "9">>

\* the decimal digits of a natural number
RECURSIVE DigitsOf(_)
DigitsOf(n) ==
    IF n < 10 THEN <<DigitChar[n + 1]>>
    ELSE DigitsOf(n \div 10) \o <<DigitChar[(n % 10) + 1]>>

NoStats == [c \in StatColumns |-> Absent]

\* row i of the file: player "p<i>" projected to rush 10 * i yards
FileRow(i) ==
    [name |-> <<"p">> \o DigitsOf(i)] @@
    [NoStats EXCEPT !["RushingYDS_pred"] = Cell(DigitsOf(10 * i))]

FileRows(n) == [i \in 1..n |-> FileRow(i)]

ExtraNames ==
    {<<"A", "l">>, <<" ", "a", "L", " ">>, <<"P", "1", "\t">>, <<"p", "2", "0">>}

ExtraStats ==
    {[NoStats EXCEPT !["RushingTD_pred"] = Cell(<<"1">>)],
     [NoStats EXCEPT !["ReceivingRec_pred"] = Cell(<<"1", "5", ".", "5">>),
                     !["PassingTD_pred"] = Cell(<<"2">>)]}

ExtraRows == {[name |-> n] @@ stats : n \in ExtraNames, stats \in ExtraStats}

AtMostOne(S) == {<<>>} \cup {<<x>> : x \in S}

LoadInit ==
    /\ DraftInit
    /\ TeamInit
    /\ HomeInit
    /\ schedIn = [pickNumber |-> 0, numTeams |-> 1]
    /\ schedOut = NotScheduled
    /\ \E pos \in PositionSet, scoring \in ScoringSet, n \in 0..MaxFile :
       \E before \in AtMostOne(ExtraRows), after \in AtMostOne(ExtraRows) :
           fnIn = [rows |-> before \o FileRows(n) \o after,
                   pos |-> pos, scoring |-> scoring]
    /\ fnOut = NotCalled

LoadPosition ==
    /\ fnOut = NotCalled
    /\ fnOut' = [done |-> TRUE,
                 players |-> PlayersByPosition(fnIn.rows, fnIn.pos, fnIn.scoring)]
    /\ UNCHANGED <<draftVars, myPlayers, myRoster, myOp, myScoring, myLoads, myLoading,
                   home, schedIn, schedOut, fnIn>>

LoadNext == LoadPosition

SpecLoad == LoadInit /\ [][LoadNext]_vars

(***************************************************************************)
(* The My Team builder on its own.  The files that load hold one player    *)
(* more per position than the roster takes; the user adds the first player *)
(* of a position that is not on the roster yet or asks again for one that  *)
(* is, and removes or toggles the first or the last roster row.            *)
(***************************************************************************)
MaxTeamRoster == 5

\* the position files whose fetch is ok
TeamFiles == {{"QB"}, {"RB"}, {"WR"}, {"TE"}, {"QB", "TE"}}

\* loadAll finishes: the players of the files that were read
LoadAllDone(files) ==
    /\ myLoads # <<>>
    /\ myLoads' = Tail(myLoads)
    /\ myLoading' = FALSE
    /\ myPlayers' = UNION {{[id |-> <<pos, k>>, position |-> pos] :
                               k \in 1..(POSITION_LIMITS[pos] + 1)} : pos \in files}
    /\ myOp' = [op |-> "loadAll"]
    /\ UNCHANGED <<draftVars, myScoring, home, schedIn, schedOut, fnIn, fnOut, myRoster>>

\* the players of the list the add is asked for
TeamShown ==
    LET onRoster(p) == \E i \in 1..Len(myRoster) : myRoster[i].id = p.id
        first(S) == {p \in S : \A q \in S : q.position = p.position => p.id[2] <= q.id[2]}
    IN  first({p \in myPlayers : ~onRoster(p)}) \cup first({p \in myPlayers : onRoster(p)})

addPlayer(player) ==
    /\ myRoster' =
           IF ~canAddPlayer(myRoster, player) THEN myRoster
           ELSE LET isStarter == starterCounts(myRoster)[player.position]
                                     < STARTER_LIMITS[player.position]
                IN  Append(myRoster,
                           [f \in DOMAIN player \cup {"slot"} |->
                               IF f # "slot" THEN player[f]
                               ELSE IF isStarter THEN "starter" ELSE "bench"])
    /\ myOp' = [op |-> "addPlayer", id |-> player.id]
    /\ UNCHANGED <<draftVars, myScoring, myLoads, myLoading, home, schedIn, schedOut,
                   fnIn, fnOut, myPlayers>>

removePlayer(playerId) ==
    /\ myRoster' = SelectSeq(myRoster, LAMBDA p : p.id # playerId)
    /\ myOp' = [op |-> "removePlayer", id |-> playerId]
    /\ UNCHANGED <<draftVars, myScoring, myLoads, myLoading, home, schedIn, schedOut,
                   fnIn, fnOut, myPlayers>>

toggleSlot(playerId) ==
    /\ myRoster' =
           [i \in 1..Len(myRoster) |->
               LET p == myRoster[i]
               IN  IF p.id # playerId THEN p
                   ELSE IF p.slot = "starter" THEN [p EXCEPT !.slot = "bench"]
                   ELSE LET currentStarters ==
                                Cardinality({j \in 1..Len(myRoster) :
                                                /\ myRoster[j].position = p.position
                                                /\ myRoster[j].slot = "starter"})
                        IN  IF currentStarters < STARTER_LIMITS[p.position]
                            THEN [p EXCEPT !.slot = "starter"]
                            ELSE p]
    /\ myOp' = [op |-> "toggleSlot", id |-> playerId]
    /\ UNCHANGED <<draftVars, myScoring, myLoads, myLoading, home, schedIn, schedOut,
                   fnIn, fnOut, myPlayers>>

\* the Clear Roster button: setRoster([])
clearRoster ==
    /\ myRoster' = <<>>
    /\ myOp' = [op |-> "clear"]
    /\ UNCHANGED <<draftVars, myScoring, myLoads, myLoading, home, schedIn, schedOut,
                   fnIn, fnOut, myPlayers>>

TeamNext ==
    \/ \E files \in TeamFiles : LoadAllDone(files)
    \/ \E player \in TeamShown :
           /\ Len(myRoster) < MaxTeamRoster \/ ~canAddPlayer(myRoster, player)
           /\ addPlayer(player)
    \/ \E i \in {1, Len(myRoster)} \cap DOMAIN myRoster : removePlayer(myRoster[i].id)
    \/ \E i \in {1, Len(myRoster)} \cap DOMAIN myRoster : toggleSlot(myRoster[i].id)
    \/ (myRoster # <<>> /\ clearRoster)

SpecTeam == Init /\ [][TeamNext]_vars

(***************************************************************************)
(* getCPUPick with the outcomes of Math.random() spelled out: a pool of at *)
(* most one player per position, the rosters and rounds of SpecCPU.        *)
(***************************************************************************)
RandInit ==
    /\ DraftInit
    /\ TeamInit
    /\ HomeInit
    /\ schedIn = [pickNumber |-> 0, numTeams |-> 1]
    /\ schedOut = NotScheduled
    /\ \E gone \in [PositionSet -> (PerPos - 1)..PerPos] :
       \E counts \in {c \in [PositionSet -> 0..ROSTER_SIZE] :
                          \A pos \in PositionSet :
                              c[pos] \in {0, ROSTER_TARGETS[pos].min,
                                          ROSTER_TARGETS[pos].max}} :
       \E round \in {1, 8} :
           fnIn = [pool |-> PoolWithout(gone),
                   teamRoster |-> RosterOf(counts), round |-> round]
    /\ fnOut = NotCalled

\* one call with the pool as `available`; `scored` is the sorted list and
\* `picked` the player returned
CPUPickScored ==
    /\ fnOut = NotCalled
    /\ fnIn.pool # <<>>
    /\ \E random \in [1..Len(CPUCandidates(fnIn.pool, fnIn.teamRoster))
                        -> RandomLevels] :
           LET sorted == sortedScored(fnIn.pool, fnIn.teamRoster, fnIn.round, random)
           IN  fnOut' = [done |-> TRUE, scored |-> sorted,
                         picked |-> IF sorted # <<>> THEN sorted[1].player
                                    ELSE fnIn.pool[1]]
    /\ UNCHANGED <<draftVars, myPlayers, myRoster, myOp, myScoring, myLoads, myLoading,
                   home, schedIn, schedOut, fnIn>>

RandNext == CPUPickScored

SpecRand == RandInit /\ [][RandNext]_vars

(***************************************************************************)
(* A team's roster as the results show it: any roster of up to MaxRoster   *)
(* players, its buckets in any order of points, with the rows marked as    *)
(* starters (isStarterSlot) and the starter points (getStarterPoints).     *)
(***************************************************************************)
SlotPointLevels == {5, 10, 20}

SlotInit ==
    /\ DraftInit
    /\ TeamInit
    /\ HomeInit
    /\ schedIn = [pickNumber |-> 0, numTeams |-> 1]
    /\ schedOut = NotScheduled
    /\ fnIn = [shown |-> createEmptyRoster]
    /\ fnOut = NotCalled

\* one more player at the end of a bucket
PutOnRoster(pos, points) ==
    /\ fnOut = NotCalled
    /\ RosterSize(fnIn.shown) < MaxRoster
    /\ fnIn' = [shown |->
                   [fnIn.shown EXCEPT
                       ![pos] = Append(@, [position |-> pos, points |-> points])]]
    /\ UNCHANGED <<draftVars, myPlayers, myRoster, myOp, myScoring, myLoads, myLoading,
                   home, schedIn, schedOut, fnOut>>

\* the roster is shown: `starters` are the (position, index) pairs of the
\* rows isStarterSlot marks, `result` is getStarterPoints
ShowStarters ==
    /\ fnOut = NotCalled
    /\ fnOut' = [done |-> TRUE,
                 result |-> getStarterPoints(fnIn.shown),
                 starters |-> {<<pos, idx>> \in PositionSet \X (0..(MaxRoster - 1)) :
                                  idx < Len(fnIn.shown[pos]) /\ isStarterSlot(pos, idx)}]
    /\ UNCHANGED <<draftVars, myPlayers, myRoster, myOp, myScoring, myLoads, myLoading,
                   home, schedIn, schedOut, fnIn>>

SlotNext ==
    \/ \E pos \in PositionSet : \E points \in SlotPointLevels : PutOnRoster(pos, points)
    \/ ShowStarters

SpecSlot == SlotInit /\ [][SlotNext]_vars

(***************************************************************************)
(* The setup card's hint on the draft position, next to the order in which *)
(* the scheduler lets the teams of the program's league pick in a round.   *)
(***************************************************************************)
\* NUM_TEAMS and ROUNDS as the program has them (the drafts of the model are
\* bounded by NUM_TEAMS and ROUNDS above)
LeagueTeams == 12

LeagueRounds == 15

\* the hint with the same place in every round
draftPositionHintSamePlace(position) ==
    [odd |-> position, even |-> position]

\* "Pick p means you draft p-th in odd rounds, (13 - p)-th in even rounds"
draftPositionHint(position) ==
    [odd |-> position, even |-> 13 - position]

HintInit ==
    /\ DraftInit
    /\ TeamInit
    /\ HomeInit
    /\ schedIn = [pickNumber |-> 0, numTeams |-> 1]
    /\ schedOut = NotScheduled
    /\ \E position \in 1..12, round \in 1..LeagueRounds :
           fnIn = [position |-> position, round |-> round]
    /\ fnOut = NotCalled

\* the hint is shown for the chosen position, and the picks of round
\* fnIn.round (counted from 1) are scheduled one after the other
ShowHint ==
    /\ fnOut = NotCalled
    /\ fnOut' = [done |-> TRUE,
                 hint |-> draftPositionHint(fnIn.position),
                 order |-> [k \in 1..LeagueTeams |->
                               getSnakeDraftTeamIndex(
                                   (fnIn.round - 1) * LeagueTeams + (k - 1),
                                   LeagueTeams)]]
    /\ UNCHANGED <<draftVars, myPlayers, myRoster, myOp, myScoring, myLoads, myLoading,
                   home, schedIn, schedOut, fnIn>>

HintNext == ShowHint

SpecHint == HintInit /\ [][HintNext]_vars

(***************************************************************************)
(* The My Team page with its scoring selector and its load effect          *)
(* (my-team/page.tsx): every change of the scoring starts a call of        *)
(* loadAll that finishes later, and recalculates the roster at once.  The  *)
(* files hold one quarterback, one running back and one receiver, the      *)
(* tight ends' file has no row; allPlayers is the sorted list.             *)
(***************************************************************************)
\* the roster rows of this specification
MaxPointsRoster == 3

TeamFileRows ==
    [QB |-> <<[name |-> <<"A", "l">>] @@
              [NoStats EXCEPT !["PassingYDS_pred"] = Cell(<<"3", "0", "0">>)]>>,
     RB |-> <<[name |-> <<"B", "o">>] @@
              [NoStats EXCEPT !["RushingYDS_pred"] = Cell(<<"1", "0">>),
                              !["ReceivingRec_pred"] = Cell(<<"3", ".", "3">>)]>>,
     WR |-> <<[name |-> <<"C", "y">>] @@
              [NoStats EXCEPT !["ReceivingRec_pred"] = Cell(<<"2">>),
                              !["ReceivingTD_pred"] = Cell(<<"1">>)]>>,
     TE |-> <<>>]

\* Object.values(byName).forEach of loadAll: the players pushed for one
\* position
loadAllEntries(byName, pos) ==
    [idx \in 1..Len(byName) |->
        [id |-> <<pos, byName[idx].name, idx - 1>>, name |-> byName[idx].name,
         position |-> pos, points |-> byName[idx].points,
         raw |-> byName[idx].row]]

\* one round of the loop of loadAll over the positions
loadAllPosition(pos, scoring) ==
    loadAllEntries(dedupe(TeamFileRows[pos], pos, scoring), pos)

\* the list a call of loadAll hands to setAllPlayers
loadAll(scoring) ==
    SortDesc(loadAllPosition("QB", scoring) \o loadAllPosition("RB", scoring)
             \o loadAllPosition("WR", scoring) \o loadAllPosition("TE", scoring),
             "points")

RemoveAt(s, i) == SubSeq(s, 1, i - 1) \o SubSeq(s, i + 1, Len(s))

PointsInit ==
    /\ DraftInit
    /\ myPlayers = <<>>
    /\ myRoster = <<>>
    /\ myOp = NoTeamOp
    /\ myScoring = "PPR"
    /\ myLoads = <<"PPR">>
    /\ myLoading = TRUE
    /\ HomeInit
    /\ schedIn = [pickNumber |-> 0, numTeams |-> 1]
    /\ schedOut = NotScheduled
    /\ fnIn = [page |-> "my-team"]
    /\ fnOut = NotCalled

\* the roster recalculated by the effect of a scoring change
recalculated(roster, scoring) ==
    [i \in 1..Len(roster) |->
        [roster[i] EXCEPT !.points =
            computeFantasyPoints(roster[i].raw, roster[i].position, scoring)]]

\* a scoring button is clicked: setScoring, and when the scoring changes
\* both effects run, the one calling loadAll (setLoading(true)) and the one
\* recalculating the roster
SetTeamScoring(s) ==
    /\ s # myScoring
    /\ Len(myLoads) < MaxInFlight
    /\ myScoring' = s
    /\ myLoads' = Append(myLoads, s)
    /\ myLoading' = TRUE
    /\ myRoster' = recalculated(myRoster, s)
    /\ myOp' = [op |-> "setScoring"]
    /\ UNCHANGED <<draftVars, myPlayers, home, schedIn, schedOut, fnIn, fnOut>>

\* the i-th call of loadAll in flight finishes: setAllPlayers, setLoading(false)
TeamLoadDone(i) ==
    /\ i \in DOMAIN myLoads
    /\ myPlayers' = loadAll(myLoads[i])
    /\ myLoading' = FALSE
    /\ myLoads' = RemoveAt(myLoads, i)
    /\ myOp' = [op |-> "loadAll"]
    /\ UNCHANGED <<draftVars, myRoster, myScoring, home, schedIn, schedOut, fnIn, fnOut>>

\* the list is on screen when loading is false
PointsNext ==
    \/ \E s \in ScoringSet : SetTeamScoring(s)
    \/ \E i \in 1..MaxInFlight : TeamLoadDone(i)
    \/ \E i \in DOMAIN myPlayers :
           /\ ~myLoading
           /\ Len(myRoster) < MaxPointsRoster
           /\ addPlayer(myPlayers[i])
    \/ (myRoster # <<>> /\ removePlayer(myRoster[1].id))

SpecPoints == PointsInit /\ [][PointsNext]_vars

(***************************************************************************)
(* One opponent's whole draft: ROSTER_SIZE turns, each a call of           *)
(* getCPUPick on the pool the other teams have left, which holds a player  *)
(* of every position the team is below its maximum in.  The heuristic      *)
(* reads the length of the roster's buckets only; a roster row keeps the   *)
(* id and the position of the player.                                      *)
(***************************************************************************)
\* the vor a player of the pool can have: below, at and above replacement
FillVorLevels == {0 - 20, 0, 40}

\* the positions the pool of a turn holds a player of
FillPositions(teamRoster) ==
    {held \in SUBSET PositionSet :
        \A pos \in PositionSet :
            Len(teamRoster[pos]) < ROSTER_TARGETS[pos].max => pos \in held}

\* the pool of a turn: one player of each position held, named after the
\* place it would take on the roster, in the order of the valuated list
FillPool(held, vorOf, teamRoster) ==
    LET playerOf(pos) ==
            [id |-> <<pos, Len(teamRoster[pos]) + 1>>, position |-> pos,
             points |-> 0, vor |-> vorOf[pos],
             tier |-> IF vorOf[pos] > 0 THEN 1 ELSE 3]
        listed == [i \in 1..4 |-> playerOf(<<"QB", "RB", "WR", "TE">>[i])]
    IN  SortDesc(SelectSeqBy(listed, {p \in Range(listed) : p.position \in held}),
                 "vor")

FillInit ==
    /\ DraftInit
    /\ TeamInit
    /\ HomeInit
    /\ schedIn = [pickNumber |-> 0, numTeams |-> 1]
    /\ schedOut = NotScheduled
    /\ fnIn = [filled |-> createEmptyRoster, round |-> 1]
    /\ fnOut = NotCalled

\* one turn of the team: getCPUPick on the pool of the turn, and makePick
\* filing the player under its position
CPUTurn ==
    /\ RosterSize(fnIn.filled) < ROSTER_SIZE
    /\ \E held \in FillPositions(fnIn.filled) :
       \E vorOf \in [PositionSet -> FillVorLevels] :
       \E player \in getCPUPick(FillPool(held, vorOf, fnIn.filled), fnIn.filled,
                                fnIn.round) :
           /\ fnIn' = [filled |->
                          [fnIn.filled EXCEPT ![player.position] =
                              Append(@, [id |-> player.id,
                                         position |-> player.position])],
                       round |-> fnIn.round + 1]
           /\ fnOut' = [done |-> TRUE, picked |-> player, held |-> held]
    /\ UNCHANGED <<draftVars, myPlayers, myRoster, myOp, myScoring, myLoads,
                   myLoading, home, schedIn, schedOut>>

FillNext == CPUTurn

SpecFill == FillInit /\ [][FillNext]_vars

(***************************************************************************)
(* The score of one candidate of getCPUPick: a player above, at or below   *)
(* replacement level, a roster with none, the minimum or the maximum of    *)
(* each position, an early and a late round, a random factor.              *)
(***************************************************************************)
BoostInit ==
    /\ DraftInit
    /\ TeamInit
    /\ HomeInit
    /\ schedIn = [pickNumber |-> 0, numTeams |-> 1]
    /\ schedOut = NotScheduled
    /\ \E pos \in PositionSet : \E vor \in FillVorLevels : \E t \in 1..3 :
       \E counts \in {c \in [PositionSet -> 0..ROSTER_SIZE] :
                          \A q \in PositionSet :
                              c[q] \in {0, ROSTER_TARGETS[q].min,
                                        ROSTER_TARGETS[q].max}} :
       \E round \in {1, 8} : \E random \in RandomLevels :
           fnIn = [candidate |-> [id |-> <<pos, 1>>, position |-> pos, points |-> 0,
                                  vor |-> vor, tier |-> t],
                   teamRoster |-> RosterOf(counts), round |-> round,
                   random |-> random]
    /\ fnOut = NotCalled

\* candidates.map over the one candidate
ScoreCandidate ==
    /\ fnOut = NotCalled
    /\ fnOut' = [done |-> TRUE,
                 scored |-> scored(<<fnIn.candidate>>,
                                   countRosterPositions(fnIn.teamRoster),
                                   fnIn.round, <<fnIn.random>>)]
    /\ UNCHANGED <<draftVars, myPlayers, myRoster, myOp, myScoring, myLoads,
                   myLoading, home, schedIn, schedOut, fnIn>>

BoostNext == ScoreCandidate

SpecBoost == BoostInit /\ [][BoostNext]_vars

(***************************************************************************)
(* The rankings page (Home) and the list of the My Team page: every change *)
(* of the position or the scoring starts a load that finishes later; the   *)
(* loads in flight finish in any order.                                    *)
(***************************************************************************)
HomeFileRows ==
    [QB |-> TeamFileRows.QB,
     RB |-> TeamFileRows.RB \o
            <<[name |-> <<"D", "e">>] @@
              [NoStats EXCEPT !["RushingYDS_pred"] = Cell(<<"3", "0">>)]>>,
     WR |-> TeamFileRows.WR,
     TE |-> <<>>]

\* the rows a call of load hands to setRows: scored, sorted and ranked
load(position, scoring) ==
    LET r == HomeFileRows[position]
        computed == [i \in 1..Len(r) |->
                        ("__points" :> computeFantasyPoints(r[i], position, scoring))
                        @@ ("__rank" :> 0) @@ r[i]]
        sorted == SortDesc(computed, "__points")
    IN  [idx \in 1..Len(sorted) |-> [sorted[idx] EXCEPT !["__rank"] = idx]]

\* the effect of a changed position or scoring: load() is called
HomeLoadStarted(position, scoring) ==
    [home EXCEPT !.position = position, !.scoring = scoring, !.loading = TRUE,
                 !.error = FALSE,
                 !.loads = Append(@, [position |-> position, scoring |-> scoring])]

\* a position tab of the rankings page is clicked
SetHomePosition(p) ==
    /\ p # home.position
    /\ Len(home.loads) < MaxInFlight
    /\ home' = HomeLoadStarted(p, home.scoring)
    /\ UNCHANGED <<draftVars, myPlayers, myRoster, myOp, myScoring, myLoads,
                   myLoading, schedIn, schedOut, fnIn, fnOut>>

\* a scoring tab of the rankings page is clicked
SetHomeScoring(s) ==
    /\ s # home.scoring
    /\ Len(home.loads) < MaxInFlight
    /\ home' = HomeLoadStarted(home.position, s)
    /\ UNCHANGED <<draftVars, myPlayers, myRoster, myOp, myScoring, myLoads,
                   myLoading, schedIn, schedOut, fnIn, fnOut>>

\* the i-th call of load in flight finishes: setRows, setLoading(false)
HomeLoadDone(i) ==
    /\ i \in DOMAIN home.loads
    /\ home' = [home EXCEPT !.rows = load(home.loads[i].position,
                                         home.loads[i].scoring),
                            !.loading = FALSE,
                            !.loads = RemoveAt(@, i)]
    /\ UNCHANGED <<draftVars, myPlayers, myRoster, myOp, myScoring, myLoads,
                   myLoading, schedIn, schedOut, fnIn, fnOut>>

LatestNext ==
    \/ \E s \in ScoringSet : SetTeamScoring(s)
    \/ \E i \in 1..MaxInFlight : TeamLoadDone(i)
    \/ \E p \in PositionSet : SetHomePosition(p)
    \/ \E s \in ScoringSet : SetHomeScoring(s)
    \/ \E i \in 1..MaxInFlight : HomeLoadDone(i)

SpecLatest == PointsInit /\ [][LatestNext]_vars

(***************************************************************************)
(* Properties.                                                             *)
(***************************************************************************)
TotalPicks == ROUNDS * NUM_TEAMS

RosterPlayers(t) ==
    teamRosters[t].QB \o teamRosters[t].RB \o teamRosters[t].WR \o teamRosters[t].TE

\* how often player id `id` sits in the roster of team t
Occurrences(t, id) ==
    Cardinality({i \in 1..Len(RosterPlayers(t)) : RosterPlayers(t)[i].id = id})

\* a step that applies a pick
PickApplied == lastOp' \in {"userPick", "cpuPick"}

\* C1 (as claimed): Legality - after any sequence of picks applied in turn
\* order (the i-th ledger entry is the pick of turn i), no roster bucket of any
\* team holds more players than the configured maximum of its position.
C1_Legality ==
    (\A i \in 1..Len(draftPicks) : draftPicks[i].overall = i)
        => \A t \in 1..NUM_TEAMS : \A pos \in PositionSet :
               Len(teamRosters[t][pos]) <= ROSTER_TARGETS[pos].max

C3_OverallIsIndex ==
    /\ [](\A i \in 1..Len(draftPicks) : draftPicks[i].overall = i)
    /\ [][lastOp' \notin {"start", "reset"}
          => /\ Len(draftPicks') >= Len(draftPicks)
             /\ SubSeq(draftPicks', 1, Len(draftPicks)) = draftPicks]_vars

C5_FirstPickOfRoundIsTeam0 ==
    (schedOut.done /\ schedIn.pickNumber % schedIn.numTeams = 0)
        => schedOut.team = 0

\* C5 (amended): for pick index r*N the scheduler returns team 0 when r is even
\* and team N-1 when r is odd; for pick index r*N + N-1 it returns team N-1
\* when r is even and team 0 when r is odd.
C5_SnakeProperty ==
    schedOut.done =>
        LET N == schedIn.numTeams
            r == schedIn.pickNumber \div N
        IN  /\ schedIn.pickNumber = r * N =>
                   schedOut.team = IF r % 2 = 0 THEN 0 ELSE N - 1
            /\ schedIn.pickNumber = r * N + N - 1 =>
                   schedOut.team = IF r % 2 = 0 THEN N - 1 ELSE 0

\* C5 witness: the scheduler has answered for the first pick of an odd round
\* of more than one team.
C5_Witness ==
    /\ schedOut.done
    /\ schedIn.numTeams > 1
    /\ schedIn.pickNumber % schedIn.numTeams = 0
    /\ (schedIn.pickNumber \div schedIn.numTeams) % 2 = 1
    /\ schedOut.team = schedIn.numTeams - 1

\* A pending timer captured the state as it is now.
TimerIsCurrent ==
    /\ draftPhase = "drafting"
    /\ ~pending
    /\ timer.pickNumber = Len(draftPicks)
    /\ timer.availablePlayers = availablePlayers
    /\ timer.teamRoster =
           teamRosters[getSnakeDraftTeamIndex(Len(draftPicks), NUM_TEAMS) + 1]

C7_PlayerDraftedOnce ==
    \A id \in {p.id : p \in Range(allPlayers)} :
        Cardinality({t \in 1..NUM_TEAMS : Occurrences(t, id) > 0}) <= 1
        /\ \A t \in 1..NUM_TEAMS : Occurrences(t, id) <= 1

\* C8 (as claimed): one actor per pick - no two ledger entries share an
\* overall number (no turn is applied twice), and a click on the board while
\* it is not the user's turn changes nothing.
C8_OnePickPerTurn ==
    /\ [](\A i, j \in 1..Len(draftPicks) :
             i # j => draftPicks[i].overall # draftPicks[j].overall)
    /\ [][(lastOp' \in {"userPick", "clickIgnored"} /\ ~isUserTurn(Store))
          => UNCHANGED <<draftPicks, teamRosters, availablePlayers, draftPhase>>]_vars

\* C9 (as claimed): a pick attempted while the phase is `setup` or `complete`
\* leaves the ledger, the rosters, the pool and the phase unchanged.
C9_NoPickOutsideDrafting ==
    [][(draftPhase \in {"setup", "complete"}
        /\ lastOp' \in {"userPick", "clickIgnored", "cpuPick"})
       => UNCHANGED <<draftPicks, teamRosters, availablePlayers, draftPhase>>]_vars

\* C10 (as claimed): a pick for a player that is not in the available pool is
\* a no-op, so every applied pick is for a player of the pool.
C10_PickedPlayerWasAvailable ==
    [][(PickApplied /\ Len(draftPicks') = Len(draftPicks) + 1)
       => draftPicks'[Len(draftPicks')].player \in Range(availablePlayers)]_vars

\* C11: resetDraft leaves the phase at setup, the ledger empty, NUM_TEAMS
\* empty rosters, the available pool equal to the full valuated pool and
\* autopick off, whatever the state before; a second resetDraft right after
\* it would set what is already there.
C11_ResetState ==
    [][lastOp' = "reset" =>
          /\ draftPhase' = "setup"
          /\ draftPicks' = <<>>
          /\ DOMAIN teamRosters' = 1..NUM_TEAMS
          /\ \A t \in 1..NUM_TEAMS : \A pos \in PositionSet :
                 teamRosters'[t][pos] = <<>>
          /\ availablePlayers' = allPlayers'
          /\ autopick' = FALSE
          /\ LET again == resetDraftSets(view')
             IN  /\ again.draftPhase = draftPhase'
                 /\ again.draftPicks = draftPicks'
                 /\ again.availablePlayers = availablePlayers'
                 /\ again.teamRosters = teamRosters'
                 /\ again.autopick = autopick']_vars

\* C12: startDraft sets the phase to drafting and leaves the ledger empty,
\* each of the NUM_TEAMS rosters empty and the available pool equal to the
\* full valuated list, in the valuated order, whatever the state before.
C12_StartState ==
    [][lastOp' = "start" =>
          /\ draftPhase' = "drafting"
          /\ draftPicks' = <<>>
          /\ DOMAIN teamRosters' = 1..NUM_TEAMS
          /\ \A t \in 1..NUM_TEAMS : \A pos \in PositionSet :
                 teamRosters'[t][pos] = <<>>
          /\ availablePlayers' = allPlayers'
          /\ allPlayers' = allPlayers]_vars

\* C13: the draft is created in setup; the phase becomes drafting only by
\* startDraft, becomes complete only by a pick that brings the ledger to
\* ROUNDS * NUM_TEAMS entries, and leaves complete only for setup, by
\* resetDraft.
C13_PhaseLifecycle ==
    /\ draftPhase = "setup"
    /\ [][/\ (draftPhase # "drafting" /\ draftPhase' = "drafting")
               => lastOp' = "start"
          /\ (draftPhase # "complete" /\ draftPhase' = "complete")
               => (PickApplied /\ Len(draftPicks') = TotalPicks)
          /\ (draftPhase = "complete" /\ draftPhase' # "complete")
               => (lastOp' = "reset" /\ draftPhase' = "setup")]_vars

\* the phase is drafting and the acting team is not the user's or autopick is on
AutomationAllowed ==
    /\ draftPhase = "drafting"
    /\ (~isUserTurn(Store) \/ autopick)

\* C14: an automated pick is applied only when the phase is drafting and the
\* acting team is not the user's team or autopick is on; on the user's turn
\* with autopick off no timer is pending and no automated pick is applied;
\* so an automated ledger entry of the user's team is made with autopick on.
C14_AutomationGated ==
    /\ [](timer.armed => AutomationAllowed)
    /\ [][lastOp' = "cpuPick" =>
             /\ AutomationAllowed
             /\ draftPicks'[Len(draftPicks')].teamIndex = userTeamIndex(Store)
                    => (autopick /\ autopick')]_vars

\* the timer has just picked for the user's team, autopick being on
C14_Witness ==
    /\ lastOp = "cpuPick"
    /\ autopick
    /\ draftPicks[Len(draftPicks)].teamIndex = userTeamIndex(Store)
    /\ \E i \in 1..Len(draftPicks) : draftPicks[i].teamIndex # userTeamIndex(Store)

\* C15: a draft started over a valuated pool of at least ROUNDS * NUM_TEAMS
\* players, whose user picks on their turns and whose timers fire, reaches
\* complete; while drafting some pick is enabled or about to be.
C15_Progress ==
    /\ []((draftPhase = "drafting" /\ Len(allPlayers) >= TotalPicks)
            => \/ pending
               \/ timer.armed
               \/ (isUserTurn(view) /\ Shown(view) # {}))
    /\ ((draftPhase = "drafting" /\ Len(allPlayers) >= TotalPicks)
            ~> draftPhase = "complete")

\* C16: with an empty valuated pool no pick is ever applied and a started
\* draft is complete at once or as if not started (still in setup); it does
\* not wait in drafting.
C16_EmptyPoolStart ==
    (~loading /\ allPlayers = <<>>)
        => (draftPicks = <<>> /\ draftPhase \in {"setup", "complete"})

\* the points of the bucket of pos, in bucket order
BucketPoints(roster, pos) == [i \in 1..Len(roster[pos]) |-> roster[pos][i].points]

\* the sum of the first n points of s, or of all when s has fewer
RECURSIVE SumFirst(_, _)
SumFirst(s, n) ==
    IF n = 0 \/ s = <<>> THEN 0 ELSE Head(s) + SumFirst(Tail(s), n - 1)

\* the highest points among the RB beyond the first 2, the WR beyond the
\* first 2 and the TE beyond the first 1; 0 when there is none
FlexPoints(roster) ==
    LET beyond == {<<"RB", i>> : i \in 3..Len(roster.RB)}
                  \cup {<<"WR", i>> : i \in 3..Len(roster.WR)}
                  \cup {<<"TE", i>> : i \in 2..Len(roster.TE)}
        pts(x) == roster[x[1]][x[2]].points
    IN  IF beyond = {} THEN 0
        ELSE pts(CHOOSE x \in beyond : \A y \in beyond : pts(x) >= pts(y))

LineupPoints(roster) ==
    SumFirst(BucketPoints(roster, "QB"), 1) + SumFirst(BucketPoints(roster, "RB"), 2)
    + SumFirst(BucketPoints(roster, "WR"), 2) + SumFirst(BucketPoints(roster, "TE"), 1)
    + FlexPoints(roster)

Descending(s) == \A i \in 1..Len(s) - 1 : s[i] >= s[i + 1]

\* C17: for a roster whose buckets are in descending points order
\* getStarterPoints is the sum of the first 1 QB, 2 RB, 2 WR and 1 TE plus
\* the best player beyond them among RB, WR and TE; a position with fewer
\* players than starter slots adds what it has; RB points 20, 15, 10, 5 and
\* nothing else give 45.
C17_StarterPoints ==
    (fnOut # NotCalled /\ "roster" \in DOMAIN fnIn)
        => /\ \A pos \in PositionSet : Descending(BucketPoints(fnIn.roster, pos))
           /\ fnOut.result = LineupPoints(fnIn.roster)
           /\ (/\ BucketPoints(fnIn.roster, "RB") = <<20, 15, 10, 5>>
               /\ RosterSize(fnIn.roster) = 4)
                  => fnOut.result = 45

\* getStarterPoints has been applied to RB points 20, 15, 10, 5 alone
C17_Witness ==
    /\ fnOut # NotCalled
    /\ "roster" \in DOMAIN fnIn
    /\ BucketPoints(fnIn.roster, "RB") = <<20, 15, 10, 5>>
    /\ RosterSize(fnIn.roster) = 4
    /\ fnOut.result = 45

\* the lineup value of the truly best players of each bucket
BestLineupPoints(roster) ==
    LineupPoints([pos \in PositionSet |-> SortDesc(roster[pos], "points")])

\* C18: after any picks every roster bucket is in descending points order,
\* and getStarterPoints of every roster is the lineup value of its truly
\* best 1 QB, 2 RB, 2 WR, 1 TE and best remaining flex.
C18_BucketsDescending ==
    \A t \in 1..NUM_TEAMS :
        /\ \A pos \in PositionSet : Descending(BucketPoints(teamRosters[t], pos))
        /\ getStarterPoints(teamRosters[t]) = BestLineupPoints(teamRosters[t])

\* the available players of a position below its maximum on the roster
Wanted(available, teamRoster) ==
    {p \in Range(available) :
        Len(teamRoster[p.position]) < ROSTER_TARGETS[p.position].max}

C20_NoPickAboveMax ==
    (fnOut # NotCalled /\ "available" \in DOMAIN fnIn)
        => /\ Wanted(fnIn.available, fnIn.teamRoster) # {}
                => fnOut.picked \subseteq Wanted(fnIn.available, fnIn.teamRoster)
           /\ (Wanted(fnIn.available, fnIn.teamRoster) = {} /\ fnIn.available # <<>>)
                => /\ fnOut.picked # {}
                   /\ fnOut.picked \subseteq
                          FirstScored(fnIn.available,
                                      countRosterPositions(fnIn.teamRoster),
                                      fnIn.round)

\* running backs at their maximum, the best available player a running
\* back, and a player of another position picked
C20_Witness ==
    /\ fnOut # NotCalled
    /\ "available" \in DOMAIN fnIn
    /\ Len(fnIn.teamRoster.RB) = ROSTER_TARGETS.RB.max
    /\ fnIn.available # <<>>
    /\ fnIn.available[1].position = "RB"
    /\ \E p \in fnOut.picked : p.position # "RB"

\* the number each cell of CellsOf stands for, in tenths, written out by
\* hand: 0 for an absent cell and for a text that does not start with a
\* number; a number followed by other characters counts as that number
CellTenths(cell) ==
    IF ~cell.present THEN 0
    ELSE CASE cell.text = <<"3", "0", "0">> -> 3000
           [] cell.text = <<"1", ",", "2", "0", "0", ".", "3">> -> 12003
           [] cell.text = <<"2">> -> 20
           [] cell.text = <<"1">> -> 10
           [] cell.text = <<"1", ".", "5", "x">> -> 15
           [] cell.text = <<"1", "0">> -> 100
           [] cell.text = <<"-", "4", ".", "7">> -> 0 - 47
           [] cell.text = <<".", "5">> -> 5
           [] cell.text = <<"3", ".", "3">> -> 33
           [] cell.text = <<"4", "5", ".", "1">> -> 451
           [] OTHER -> 0

\* passing yards x 0.04 + passing TD x 4 - interceptions x 2 + rushing yards
\* x 0.1 + rushing TD x 6 + receiving yards x 0.1 + receiving TD x 6 +
\* receptions x (0, 0.5 or 1), in thousandths of a point
FormulaThousandths(row, scoring) ==
    4 * CellTenths(row["PassingYDS_pred"]) + 400 * CellTenths(row["PassingTD_pred"])
    - 200 * CellTenths(row["PassingInt_pred"]) + 10 * CellTenths(row["RushingYDS_pred"])
    + 600 * CellTenths(row["RushingTD_pred"]) + 10 * CellTenths(row["ReceivingYDS_pred"])
    + 600 * CellTenths(row["ReceivingTD_pred"])
    + CellTenths(row["ReceivingRec_pred"])
      * (CASE scoring = "STANDARD" -> 0 [] scoring = "HALF_PPR" -> 50
           [] scoring = "PPR" -> 100)

\* the row with passing yards 300, passing TD 2, INT 1, rushing yards 10
ExampleRow ==
    [c \in StatColumns |->
        CASE c = "PassingYDS_pred" -> Cell(<<"3", "0", "0">>)
          [] c = "PassingTD_pred" -> Cell(<<"2">>)
          [] c = "PassingInt_pred" -> Cell(<<"1">>)
          [] c = "RushingYDS_pred" -> Cell(<<"1", "0">>)
          [] c = "ReceivingTD_pred" -> Absent
          [] c = "ReceivingYDS_pred" -> Absent
          [] c = "ReceivingRec_pred" -> Absent
          [] OTHER -> Absent]

\* C21: computeFantasyPoints is the scoring formula rounded to 2 decimal
\* places (the hundredth nearest to it), whatever the position argument, a
\* missing or unparsable cell counting 0; the row with passing yards 300,
\* passing TD 2, INT 1, rushing yards 10 scores 19.00 under STANDARD.
C21_ScoringFormula ==
    (fnOut # NotCalled /\ "row" \in DOMAIN fnIn)
        => /\ 10 * fnOut.points - 5 <= FormulaThousandths(fnIn.row, fnIn.scoring)
           /\ FormulaThousandths(fnIn.row, fnIn.scoring) <= 10 * fnOut.points + 5
           /\ \A position \in PositionSet :
                  computeFantasyPoints(fnIn.row, position, fnIn.scoring) = fnOut.points
           /\ (fnIn.row = ExampleRow /\ fnIn.scoring = "STANDARD")
                  => fnOut.points = 1900

\* the example row has been scored for a running back: 19.00
C21_Witness ==
    /\ fnOut # NotCalled
    /\ "row" \in DOMAIN fnIn
    /\ fnIn.row = ExampleRow
    /\ fnIn.scoring = "STANDARD"
    /\ fnOut.position = "RB"
    /\ fnOut.points = 1900

\* the players of a position are in descending order of points
SortedByPoints(players) ==
    \A i \in 1..(Len(players) - 1) : players[i].points >= players[i + 1].points

\* C22: VOR correctness.  Within a position sorted by points descending, with
\* replacement rank k: when the position has at least k players, every
\* player's vor is its points minus the points of the k-th player, so that
\* player's vor is 0 and no player ranked above it has a negative vor; when
\* it has fewer than k players every player's vor is its points.
C22_VorCorrect ==
    (fnOut # NotCalled /\ "rows" \in DOMAIN fnIn)
        => LET players == fnOut.players
               k == REPLACEMENT_RANK[fnIn.pos]
           IN  /\ SortedByPoints(players)
               /\ Len(players) >= k
                    => /\ \A i \in 1..Len(players) :
                              players[i].vor = players[i].points - players[k].points
                       /\ players[k].vor = 0
                       /\ \A i \in 1..k : players[i].vor >= 0
               /\ Len(players) < k
                    => \A i \in 1..Len(players) : players[i].vor = players[i].points

\* a position with more players than its replacement rank has been valuated:
\* the best player's vor is positive and the last one's negative
C22_Witness ==
    /\ fnOut # NotCalled /\ "rows" \in DOMAIN fnIn
    /\ Len(fnOut.players) > REPLACEMENT_RANK[fnIn.pos]
    /\ fnOut.players[1].vor > 0
    /\ fnOut.players[Len(fnOut.players)].vor < 0

\* the position-weighted VOR of a player (POSITION_VALUE is in twentieths)
WeightedVor(p) == p.vor * POSITION_VALUE[p.position]

SortedByWeightedVor(players) ==
    \A i \in 1..(Len(players) - 1) :
        WeightedVor(players[i]) >= WeightedVor(players[i + 1])

\* C23: the combined pool handed to the draft (allPlayers, and the available
\* pool until the first pick) is in descending order of position-weighted VOR:
\* of two adjacent players the first has vor x weight at least the second's.
C23_PoolSortedByWeightedVor ==
    /\ SortedByWeightedVor(allPlayers)
    /\ draftPicks = <<>> => SortedByWeightedVor(availablePlayers)

\* the lower-cased, trimmed spelling of the names the files hold, written out
NameKey(name) ==
    CASE name = <<"A", "l">> -> <<"a", "l">>
      [] name = <<" ", "a", "L", " ">> -> <<"a", "l">>
      [] name = <<"P", "1", "\t">> -> <<"p", "1">>
      [] OTHER -> name

MaxOf(S) == CHOOSE x \in S : \A y \in S : y <= x

\* C24: within one position the rows are de-duplicated by case-insensitive
\* trimmed name: the valuated players are exactly one per distinct
\* lower-cased trimmed name, and each one's points are the maximum of the
\* points of the rows with that name.
C24_DedupeByName ==
    (fnOut # NotCalled /\ "rows" \in DOMAIN fnIn)
        => LET rows == fnIn.rows
               players == fnOut.players
               keys == {NameKey(rows[j].name) : j \in 1..Len(rows)}
               PointsOfKey(key) ==
                   {computeFantasyPoints(rows[j], fnIn.pos, fnIn.scoring) :
                        j \in {j \in 1..Len(rows) : NameKey(rows[j].name) = key}}
           IN  /\ Len(players) = Cardinality(keys)
               /\ \A key \in keys :
                      \E i \in 1..Len(players) :
                          /\ NameKey(players[i].name) = key
                          /\ players[i].points = MaxOf(PointsOfKey(key))

\* two rows of the file had one name in two spellings: one player was made of
\* them, under the spelling of the row with more points
C24_Witness ==
    /\ fnOut # NotCalled /\ "rows" \in DOMAIN fnIn
    /\ Len(fnOut.players) < Len(fnIn.rows)
    /\ \E i \in 1..Len(fnOut.players) :
           /\ fnOut.players[i].name = <<"P", "1", "\t">>
           /\ fnOut.players[i].points > 100

\* the points of all players of a roster, bucket by bucket
RosterPoints(roster) ==
    SumFirst(BucketPoints(roster, "QB"), Len(roster.QB))
    + SumFirst(BucketPoints(roster, "RB"), Len(roster.RB))
    + SumFirst(BucketPoints(roster, "WR"), Len(roster.WR))
    + SumFirst(BucketPoints(roster, "TE"), Len(roster.TE))

RankingsOf(v) ==
    LET rankings == teamRankings(v)
    IN  /\ Len(rankings) = NUM_TEAMS
        /\ \A t \in 0..(NUM_TEAMS - 1) :
               Cardinality({i \in 1..Len(rankings) : rankings[i].teamIndex = t}) = 1
        /\ \A i \in 1..(Len(rankings) - 1) :
               rankings[i].starterPoints >= rankings[i + 1].starterPoints
        /\ \A i \in 1..Len(rankings) :
               LET roster == v.teamRosters[rankings[i].teamIndex + 1]
               IN  /\ rankings[i].roster = roster
                   /\ rankings[i].starterPoints = LineupPoints(roster)
                   /\ rankings[i].totalPoints = RosterPoints(roster)
                   /\ rankings[i].isUser <=> rankings[i].teamIndex = v.userPickPosition - 1
        /\ Cardinality({i \in 1..Len(rankings) : rankings[i].isUser}) = 1

\* C25: the derived team rankings hold every team exactly once, in
\* descending order of starter points; each entry's starterPoints and
\* totalPoints are those of the team's current roster, and exactly one
\* entry, the team at index userPickPosition - 1, is flagged as the user's.
C25_TeamRankings == RankingsOf(view) /\ RankingsOf(Store)

\* the results of a finished draft in which the last team ranks first, the
\* user's team does not, and some team has a player outside its lineup
C25_Witness ==
    /\ view.draftPhase = "complete"
    /\ teamRankings(view)[1].teamIndex = NUM_TEAMS - 1
    /\ ~teamRankings(view)[1].isUser
    /\ teamRankings(view)[1].starterPoints > teamRankings(view)[2].starterPoints
    /\ \E i \in 1..NUM_TEAMS :
           teamRankings(view)[i].totalPoints > teamRankings(view)[i].starterPoints

\* how many roster rows hold position pos, and how many of them as starters
RowsOfPosition(pos) ==
    Cardinality({i \in 1..Len(myRoster) : myRoster[i].position = pos})

StartersOfPosition(pos) ==
    Cardinality({i \in 1..Len(myRoster) :
                    myRoster[i].position = pos /\ myRoster[i].slot = "starter"})

RosterWithinLimits ==
    /\ RowsOfPosition("QB") <= 2 /\ RowsOfPosition("RB") <= 5
    /\ RowsOfPosition("WR") <= 5 /\ RowsOfPosition("TE") <= 4
    /\ StartersOfPosition("QB") <= 1 /\ StartersOfPosition("RB") <= 2
    /\ StartersOfPosition("WR") <= 2 /\ StartersOfPosition("TE") <= 1
    /\ \A i, j \in 1..Len(myRoster) : myRoster[i].id = myRoster[j].id => i = j

RosterLimit == [QB |-> 2, RB |-> 5, WR |-> 5, TE |-> 4]

StarterLimit == [QB |-> 1, RB |-> 2, WR |-> 2, TE |-> 1]

\* a step of addPlayer for a player that is on the roster or whose position
\* is full, or of toggleSlot for a bench row whose position has all its
\* starters, leaves the roster as it was
RefusedStepKeepsRoster ==
    /\ (/\ myOp'.op = "addPlayer"
        /\ \/ \E i \in 1..Len(myRoster) : myRoster[i].id = myOp'.id
           \/ RowsOfPosition(myOp'.id[1]) >= RosterLimit[myOp'.id[1]])
           => myRoster' = myRoster
    /\ (/\ myOp'.op = "toggleSlot"
        /\ \E i \in 1..Len(myRoster) :
               myRoster[i].id = myOp'.id /\ myRoster[i].slot = "bench"
        /\ StartersOfPosition(myOp'.id[1]) >= StarterLimit[myOp'.id[1]])
           => myRoster' = myRoster

\* C26: in the My Team builder, after any sequence of addPlayer,
\* removePlayer, toggleSlot and clear, the roster holds at most 2 QB, 5 RB,
\* 5 WR and 4 TE, at most 1 QB, 2 RB, 2 WR and 1 TE as starters, and no
\* player id twice; an add that would break a roster limit or repeat a
\* player, and a bench-to-starter toggle that would break a starter limit,
\* leave the roster unchanged.
C26_RosterLimits == []RosterWithinLimits /\ [][RefusedStepKeepsRoster]_vars

\* a sixth running back has just been refused: the roster holds five, two of
\* them starters, and a bench row stands before a starter (a toggle made it so)
C26_Witness ==
    /\ myOp = [op |-> "addPlayer", id |-> <<"RB", 6>>]
    /\ RowsOfPosition("RB") = 5
    /\ StartersOfPosition("RB") = 2
    /\ \A i \in 1..Len(myRoster) : myRoster[i].id # <<"RB", 6>>
    /\ myRoster[1].slot = "bench"

\* the positions of which the roster holds fewer than the configured minimum
\* (1 QB, 4 RB, 4 WR, 1 TE)
BelowMinimum(teamRoster) ==
    {pos \in PositionSet :
        Len(teamRoster[pos]) < (IF pos \in {"RB", "WR"} THEN 4 ELSE 1)}

\* the roster slots left of the 15
SlotsLeft(teamRoster) ==
    15 - (Len(teamRoster.QB) + Len(teamRoster.RB) + Len(teamRoster.WR)
          + Len(teamRoster.TE))

Urgency(teamRoster) ==
    /\ BelowMinimum(teamRoster) # {}
    /\ SlotsLeft(teamRoster) <= Cardinality(BelowMinimum(teamRoster)) + 2

\* the candidates before the urgency override, as a set
Unnarrowed(available, teamRoster) ==
    IF Wanted(available, teamRoster) # {} THEN Wanted(available, teamRoster)
    ELSE Range(available)

\* C27: urgency override of the opponent heuristic.  When a position is below
\* its minimum, the roster slots left are at most the number of such
\* positions + 2 and a candidate plays such a position, the player returned
\* plays one; when no candidate does, the pick is made among the un-narrowed
\* candidates.
C27_UrgencyOverride ==
    (fnOut # NotCalled /\ "available" \in DOMAIN fnIn /\ Urgency(fnIn.teamRoster))
        => LET needed == BelowMinimum(fnIn.teamRoster)
               candidates == Unnarrowed(fnIn.available, fnIn.teamRoster)
           IN  /\ (\E p \in candidates : p.position \in needed)
                    => /\ fnOut.picked # {}
                       /\ \A p \in fnOut.picked : p.position \in needed
               /\ (candidates # {} /\ \A p \in candidates : p.position \notin needed)
                    => /\ fnOut.picked # {}
                       /\ fnOut.picked \subseteq
                              FirstScored(SelectSeqBy(fnIn.available, candidates),
                                          countRosterPositions(fnIn.teamRoster),
                                          fnIn.round)

\* two slots left, no quarterback on the roster, a tight end and a
\* quarterback both candidates, the best player available a tight end: the
\* quarterback is returned
C27_Witness ==
    /\ fnOut # NotCalled
    /\ "available" \in DOMAIN fnIn
    /\ SlotsLeft(fnIn.teamRoster) = 2
    /\ BelowMinimum(fnIn.teamRoster) = {"QB"}
    /\ fnIn.available # <<>>
    /\ fnIn.available[1].position = "TE"
    /\ \E p \in fnOut.picked : p.position = "QB"

\* the deterministic score of a candidate, times 20 * 10 * 10 * 4: vor x
\* weight (RB 1.15, WR 1.1, TE 1.0, QB 0.95) x 1.3 if its position is below
\* the minimum x 1.1 if its tier is at most 2 x 1.25 if the round is at least
\* 8, it is a QB or a TE and the team has none
DeterministicScore(p, teamRoster, round) ==
    p.vor
    * (CASE p.position = "RB" -> 23 [] p.position = "WR" -> 22
         [] p.position = "TE" -> 20 [] p.position = "QB" -> 19)
    * (IF p.position \in BelowMinimum(teamRoster) THEN 13 ELSE 10)
    * (IF p.tier <= 2 THEN 11 ELSE 10)
    * (IF round >= 8 /\ p.position \in {"QB", "TE"} /\ teamRoster[p.position] = <<>>
       THEN 5 ELSE 4)

\* C28: the heuristic's randomness is bounded to +-5%: every candidate's
\* perturbed score lies within 5% of its deterministic score; the player
\* selected has the maximum perturbed score among the candidates; and, when
\* every candidate's deterministic score is positive, no candidate whose
\* deterministic score is less than 0.95/1.05 of another candidate's is
\* selected.
C28_BoundedRandomness ==
    (fnOut # NotCalled /\ "pool" \in DOMAIN fnIn)
        => LET det(p) == DeterministicScore(p, fnIn.teamRoster, fnIn.round)
               entries == Range(fnOut.scored)
           IN  /\ \A e \in entries :
                      IF det(e.player) >= 0
                      THEN 950 * det(e.player) <= e.score
                           /\ e.score <= 1050 * det(e.player)
                      ELSE 1050 * det(e.player) <= e.score
                           /\ e.score <= 950 * det(e.player)
               /\ \E e \in entries :
                      /\ e.player = fnOut.picked
                      /\ \A f \in entries : e.score >= f.score
               /\ (\A e \in entries : det(e.player) > 0)
                    => \A f \in entries :
                           ~(105 * det(fnOut.picked) < 95 * det(f.player))

\* the candidate with the lower deterministic score was selected, the random
\* factors having made up for a difference within the bound
C28_Witness ==
    /\ fnOut # NotCalled
    /\ "pool" \in DOMAIN fnIn
    /\ \E f \in Range(fnOut.scored) :
           /\ DeterministicScore(f.player, fnIn.teamRoster, fnIn.round)
                  > DeterministicScore(fnOut.picked, fnIn.teamRoster, fnIn.round)
           /\ DeterministicScore(fnOut.picked, fnIn.teamRoster, fnIn.round) > 0

\* C29: tiering.  Within a position sorted by points descending the player
\* at 0-based sort index i has tier (i div 4) + 1: a positive integer, 1 for
\* the top 4 players and no others, never lower for a player further down;
\* vor and tier are the values derived from points and rank (players of a
\* position with equal points have equal vor, and no player keeps the 0 it
\* was created with as its tier).
C29_Tiering ==
    (fnOut # NotCalled /\ "rows" \in DOMAIN fnIn)
        => LET players == fnOut.players
           IN  /\ SortedByPoints(players)
               /\ \A i \in 1..Len(players) :
                      /\ players[i].tier = ((i - 1) \div 4) + 1
                      /\ players[i].tier \in Nat \ {0}
                      /\ players[i].tier = 1 <=> i <= 4
                      /\ 4 * (players[i].tier - 1) < i /\ i <= 4 * players[i].tier
               /\ \A i, j \in 1..Len(players) :
                      /\ i <= j => players[i].tier <= players[j].tier
                      /\ players[i].points = players[j].points
                             => players[i].vor = players[j].vor

\* a position of nine players or more: tiers 1, 2 and 3 are given, and the
\* fourth and fifth player, of equal points, are of different tiers
C29_Witness ==
    /\ fnOut # NotCalled /\ "rows" \in DOMAIN fnIn
    /\ Len(fnOut.players) >= 9
    /\ fnOut.players[4].tier = 1
    /\ fnOut.players[5].tier = 2
    /\ fnOut.players[9].tier = 3
    /\ fnOut.players[4].points = fnOut.players[5].points

\* the sum of the points of the rows of roster at the (position, index)
\* pairs of S, index counting from 0
RECURSIVE PointsAt(_, _)
PointsAt(roster, S) ==
    IF S = {} THEN 0
    ELSE LET x == CHOOSE x \in S : TRUE
         IN  roster[x[1]][x[2] + 1].points + PointsAt(roster, S \ {x})

\* C30: isStarterSlot agrees with the slot counts of getStarterPoints.  For
\* every roster the rows isStarterSlot marks are the rows at index 0 for QB
\* and TE and at indices 0 and 1 for RB and WR, the players getStarterPoints
\* sums apart from the flex; starter points minus the points of the marked
\* rows are the points of one unmarked RB, WR or TE row, or 0 when there is
\* none.
C30_StarterSlotsAgree ==
    (fnOut # NotCalled /\ "shown" \in DOMAIN fnIn)
        => LET roster == fnIn.shown
               fixed == {<<"QB", 0>>, <<"TE", 0>>, <<"RB", 0>>, <<"RB", 1>>,
                         <<"WR", 0>>, <<"WR", 1>>}
               rows == {<<pos, idx>> \in PositionSet \X (0..(MaxRoster - 1)) :
                           idx < Len(roster[pos])}
               beyond == {x \in rows \ fnOut.starters : x[1] # "QB"}
               rest == fnOut.result - PointsAt(roster, fnOut.starters)
           IN  /\ fnOut.starters = rows \cap fixed
               /\ IF beyond = {} THEN rest = 0
                  ELSE \E x \in beyond : rest = roster[x[1]][x[2] + 1].points

\* a roster with a third running back worth more than the second, who is the
\* flex, and a second quarterback, who is not counted
C30_Witness ==
    /\ fnOut # NotCalled /\ "shown" \in DOMAIN fnIn
    /\ Len(fnIn.shown.RB) = 3
    /\ Len(fnIn.shown.QB) = 2
    /\ fnIn.shown.RB[3].points > fnIn.shown.RB[2].points
    /\ fnOut.starters = {<<"QB", 0>>, <<"RB", 0>>, <<"RB", 1>>}
    /\ fnOut.result = PointsAt(fnIn.shown, fnOut.starters) + fnIn.shown.RB[3].points

\* C31: the setup screen's statement on the draft position agrees with the
\* turn scheduler: for every draft position p in 1..12 the user's team
\* (index p - 1) is the p-th team to pick in every odd-numbered round and the
\* (13 - p)-th in every even-numbered round, counting rounds from 1.
C31_HintAgreesWithScheduler ==
    (fnOut # NotCalled /\ "position" \in DOMAIN fnIn)
        => LET places == {k \in 1..Len(fnOut.order) :
                             fnOut.order[k] = fnIn.position - 1}
               stated == IF fnIn.round % 2 = 1 THEN fnOut.hint.odd
                         ELSE fnOut.hint.even
           IN  /\ places = {stated}
               /\ fnOut.hint.odd = fnIn.position
               /\ fnOut.hint.even = 13 - fnIn.position

\* position 3 in an even round: the user's team is the tenth to pick
C31_Witness ==
    /\ fnOut # NotCalled /\ "position" \in DOMAIN fnIn
    /\ fnIn.position = 3
    /\ fnIn.round = 2
    /\ fnOut.order[10] = 2
    /\ fnOut.hint.even = 10

\* the highest count getUpcomingPicks is asked for
MaxUpcoming == 3

Min(a, b) == IF a <= b THEN a ELSE b

\* what getUpcomingPicks(count) of the render shows
UpcomingAsStated(count) ==
    LET picks == getUpcomingPicks(view, count)
        ledger == Len(view.draftPicks)
    IN  /\ Len(picks) = Min(count, ROUNDS * NUM_TEAMS - ledger)
        /\ \A k \in 1..Len(picks) :
               /\ picks[k].pick = ledger + k
               /\ picks[k].pick <= ROUNDS * NUM_TEAMS
               /\ picks[k].isUser <=> picks[k].team = view.userPickPosition

\* a pick that is applied is recorded for the team the render on screen
\* names for it: the k-th pick after that render, for its k-th entry
AppliedAsPredicted ==
    (PickApplied /\ Len(draftPicks') = Len(draftPicks) + 1)
        => LET k == Len(draftPicks') - Len(view.draftPicks)
               picks == getUpcomingPicks(view, k)
           IN  /\ Len(picks) = k
               /\ draftPicks'[Len(draftPicks')].teamIndex + 1 = picks[k].team

\* C32: getUpcomingPicks(count) predicts the picks that follow: it returns
\* min(count, rounds x teams - ledger length) entries with consecutive pick
\* numbers from ledger length + 1 on, none beyond pick rounds x teams; the
\* team of its k-th entry is the teamIndex + 1 the ledger records when that
\* pick is applied; isUser is true exactly for the user's team.
C32_UpcomingPicksPredict ==
    /\ [](\A count \in 0..MaxUpcoming : UpcomingAsStated(count))
    /\ [][AppliedAsPredicted]_vars

\* C33: in the My Team builder every roster player's points equal the
\* fantasy points of that player's raw row under the scoring selected,
\* after any interleaving of scoring changes, loads and addPlayer calls.
C33_RosterPointsCurrent ==
    \A i \in DOMAIN myRoster :
        myRoster[i].points
            = computeFantasyPoints(myRoster[i].raw, myRoster[i].position, myScoring)

\* a step that changes the pool of a started draft is an applied pick that
\* removes the picked player and nothing else, or a reset
PoolChangedByPickOnly ==
    (draftPhase \in {"drafting", "complete"} /\ availablePlayers' # availablePlayers
        /\ lastOp' # "reset")
        => /\ PickApplied
           /\ Len(draftPicks') = Len(draftPicks) + 1
           /\ \E i \in DOMAIN availablePlayers :
                  /\ availablePlayers[i] = draftPicks'[Len(draftPicks')].player
                  /\ availablePlayers' = RemoveAt(availablePlayers, i)

\* C34: while the phase is drafting or complete the available pool is
\* changed by nothing except an applied pick removing exactly the picked
\* player, every other player staying in the same order: no load finishing
\* and no settings change replaces the pool or re-adds drafted players.
C34_PoolConsumedOnlyAtStart == [][PoolChangedByPickOnly]_vars

\* the players on any roster, and how many roster rows there are
Rostered == UNION {Range(RosterPlayers(t)) : t \in 1..NUM_TEAMS}

RECURSIVE RosteredCount(_)
RosteredCount(t) ==
    IF t = 0 THEN 0 ELSE Len(RosterPlayers(t)) + RosteredCount(t - 1)

PlayersConserved ==
    /\ Range(availablePlayers) \cap Rostered = {}
    /\ Range(availablePlayers) \cup Rostered = Range(allPlayers)
    /\ Len(draftPicks) = RosteredCount(NUM_TEAMS)
    /\ Len(draftPicks) = Len(allPlayers) - Len(availablePlayers)
    /\ {draftPicks[i].player : i \in 1..Len(draftPicks)} = Rostered

\* C35: conservation of players.  In every state of a started draft the
\* available pool and the rosters are disjoint and together hold exactly the
\* full valuated pool; the ledger is as long as the rosters hold players and
\* as the full pool exceeds the available one; the players of the ledger are
\* the players on the rosters.
C35_PlayersConserved ==
    draftPhase \in {"drafting", "complete"} => PlayersConserved

\* in every round each team acts exactly once, and the team of a round's last
\* pick makes the first pick of the next round
RoundsAreFair ==
    \A r \in 0..(ROUNDS - 1) :
        /\ \A t \in 0..(NUM_TEAMS - 1) :
               Cardinality({j \in 0..(NUM_TEAMS - 1) :
                   getSnakeDraftTeamIndex(r * NUM_TEAMS + j, NUM_TEAMS) = t}) = 1
        /\ r + 1 < ROUNDS
               => getSnakeDraftTeamIndex(r * NUM_TEAMS + NUM_TEAMS - 1, NUM_TEAMS)
                      = getSnakeDraftTeamIndex((r + 1) * NUM_TEAMS, NUM_TEAMS)

\* C36: fair turn distribution.  Within every round each team index acts
\* exactly once and the team of the last pick of a round makes the first pick
\* of the next; after k complete rounds every roster holds exactly k players,
\* and at `complete` every team holds exactly ROUNDS players.
C36_FairTurns ==
    /\ RoundsAreFair
    /\ (draftPhase \in {"drafting", "complete"} /\ Len(draftPicks) % NUM_TEAMS = 0)
           => \A t \in 1..NUM_TEAMS :
                  Len(RosterPlayers(t)) = Len(draftPicks) \div NUM_TEAMS
    /\ draftPhase = "complete"
           => \A t \in 1..NUM_TEAMS : Len(RosterPlayers(t)) = ROUNDS

\* C37: a team whose picks are all made by the opponent heuristic, the pool
\* holding at each of its turns a player of every position the team is
\* below its maximum in, never exceeds a per-position maximum and ends its
\* ROSTER_SIZE picks with every per-position minimum met (1 QB, 4 RB, 4 WR,
\* 1 TE).
C37_HeuristicFillsRoster ==
    "filled" \in DOMAIN fnIn
        => /\ \A pos \in PositionSet :
                  Len(fnIn.filled[pos]) <= ROSTER_TARGETS[pos].max
           /\ RosterSize(fnIn.filled) = ROSTER_SIZE
                  => \A pos \in PositionSet :
                         Len(fnIn.filled[pos]) >= ROSTER_TARGETS[pos].min

\* the roster is complete with one quarterback only, and the last pick was a
\* running back at replacement level taken although a receiver was in the
\* pool (receivers were at their maximum)
C37_Witness ==
    /\ "filled" \in DOMAIN fnIn
    /\ RosterSize(fnIn.filled) = ROSTER_SIZE
    /\ Len(fnIn.filled.QB) = 1
    /\ fnOut # NotCalled
    /\ fnOut.picked.position = "RB"
    /\ fnOut.picked.vor = 0
    /\ "WR" \in fnOut.held

\* the boosts that apply to candidate p
BoostsOf(p, teamRoster, round) ==
    (IF p.position \in BelowMinimum(teamRoster) THEN {"needed"} ELSE {})
    \cup (IF p.tier <= 2 THEN {"tier"} ELSE {})
    \cup (IF round >= 8 /\ p.position \in {"QB", "TE"} /\ teamRoster[p.position] = <<>>
          THEN {"late"} ELSE {})

\* the score of p with the boosts of the set `boosts` and random factor f,
\* times 20 * 10 * 10 * 4 * 1000
ScoreWithBoosts(p, boosts, f) ==
    p.vor
    * (CASE p.position = "RB" -> 23 [] p.position = "WR" -> 22
         [] p.position = "TE" -> 20 [] p.position = "QB" -> 19)
    * (IF "needed" \in boosts THEN 13 ELSE 10)
    * (IF "tier" \in boosts THEN 11 ELSE 10)
    * (IF "late" \in boosts THEN 5 ELSE 4)
    * f

\* C38: the heuristic's boosts never lower a candidate's standing.  For any
\* candidate and any fixed random factor, the score with a boost that
\* applies (needed position x 1.3, tier <= 2 x 1.1, late-round QB/TE x 1.25)
\* is at least the score without that boost, candidates of negative vor
\* included.
C38_BoostsNeverLower ==
    (fnOut # NotCalled /\ "candidate" \in DOMAIN fnIn)
        => LET p == fnIn.candidate
               boosts == BoostsOf(p, fnIn.teamRoster, fnIn.round)
           IN  /\ fnOut.scored[1].score = ScoreWithBoosts(p, boosts, fnIn.random)
               /\ \A b \in boosts :
                      fnOut.scored[1].score
                          >= ScoreWithBoosts(p, boosts \ {b}, fnIn.random)

\* C39: latest selection wins.  On the rankings page and on the My Team
\* page, once every load has finished the list displayed is the one computed
\* for the scoring (and position) selected, in whatever order the loads
\* finished.
C39_LatestSelectionWins ==
    /\ home.loads = <<>> => home.rows = load(home.position, home.scoring)
    /\ myLoads = <<>> => myPlayers = loadAll(myScoring)

====
